---- MODULE Spec2Model ----
(***************************************************************************)
(* Model of transaction_generator_12m.py: the amount splitter, the date    *)
(* sampler, the per-category synthesizer and the streaming driver.         *)
(*                                                                         *)
(* Conventions                                                             *)
(*  - A monetary total read from the input is a float; it is held here in  *)
(*    half units (total_amount = 2 * value), so that x.5 values and the    *)
(*    rounding of int(round(x)) are part of the model.                     *)
(*  - A random draw is a nondeterministic choice over its outcomes.  A     *)
(*    Dirichlet draw over n parts is a vector of n positive integer        *)
(*    weights w, standing for the proportions w[i] / sum(w).               *)
(*  - pc is the position in the code; scope says which function the        *)
(*    specification exercises ("run" is the whole driver); a function      *)
(*    exercised alone ends at pc = "halt".                                 *)
(***************************************************************************)
EXTENDS Integers, Sequences, FiniteSets, TLC

VARIABLES
    scope,                \* which function the specification exercises
    pc,                   \* position in the code
    df,                   \* the input rows (monthly CSV)
    cols_missing,         \* required columns absent from the input
    idx,                  \* index of the row being processed (0-based)
    ci,                   \* position in EXPENSE_CATEGORIES (1-based)
    year, monthnum,       \* month resolved for the row
    user_profile,         \* the row's user_archetype
    category,             \* the unit's category name
    cfg,                  \* TRANSACTION_MODEL[category] of the unit
    total_amount,         \* the unit's raw total, in half units
    num_trans,            \* count passed to the splitter
    amounts,              \* splitter result
    dates_n,              \* count passed to the date sampler
    dates, tries, chosen, \* date sampler locals
    trans_list,           \* synthesizer result
    transaction_counter, stats, buffer_rows,
    flushed,              \* rows of buffer_rows the writerows call under way has written
    fout,                 \* content of the output file
    error                 \* exception that ended the run, or "none"

vars == <<scope, pc, df, cols_missing, idx, ci, year, monthnum, user_profile, category, cfg,
          total_amount,
          num_trans, amounts, dates_n, dates, tries, chosen, trans_list,
          transaction_counter, stats, buffer_rows, flushed, fout, error>>

----------------------------------------------------------------------------
(* Bounds of the model *)

MaxTotal == 9     \* splitter inputs: totals 0 .. MaxTotal (in whole units)
MaxCount == 5     \* splitter inputs: requested counts 0 .. MaxCount
MaxMin == 2       \* splitter inputs: min_amount 1 .. MaxMin
MaxGap == 2       \* splitter inputs: threshold = min_amount + 1 .. MaxGap
MaxWeight == 2    \* Dirichlet outcomes: integer weights 1 .. MaxWeight per part
MaxDates == 2     \* date sampler inputs: counts 0 .. MaxDates
MaxRows == 2      \* driver inputs: 0 .. MaxRows input rows
MaxEmit == 2      \* emission alone: 1 .. MaxEmit transactions in the unit

----------------------------------------------------------------------------
(* Sequences and arithmetic *)

RECURSIVE SumSeq(_)
SumSeq(s) == IF s = <<>> THEN 0 ELSE Head(s) + SumSeq(Tail(s))

RECURSIVE MaxSeq(_)
MaxSeq(s) == IF Len(s) = 1 THEN s[1]
             ELSE LET m == MaxSeq(Tail(s)) IN IF s[1] >= m THEN s[1] ELSE m

\* list.index(v): position of the first element equal to v
IndexOf(s, v) == CHOOSE i \in 1..Len(s) : s[i] = v /\ \A j \in 1..(i - 1) : s[j] # v

\* Python round() of the non-negative fraction a / b: to nearest, ties to even
RoundHalfEven(a, b) ==
    LET q == a \div b
        r == a % b
    IN  IF 2 * r < b THEN q
        ELSE IF 2 * r > b THEN q + 1
        ELSE IF q % 2 = 0 THEN q ELSE q + 1

\* int(round(x)) for x = t2 / 2
IntRound(t2) == RoundHalfEven(t2, 2)

----------------------------------------------------------------------------
(* Amount splitter *)

\* scipy dirichlet.rvs([alpha] * n): the outcomes modelled, as weight vectors
DirichletOutcomes(n) == [1..n -> 1..MaxWeight]

\* [int(round(p * amount)) for p in props], props[i] = w[i] / sum(w)
Shares(w, amount) ==
    [i \in 1..Len(w) |-> RoundHalfEven(w[i] * amount, SumSeq(w))]

\* Variant: the rounding drift is not put back
AddToMax_NoCorrection(s, diff) == s

\* s[s.index(max(s))] += diff
AddToMax(s, diff) ==
    IF diff # 0 THEN [s EXCEPT ![IndexOf(s, MaxSeq(s))] = @ + diff] ELSE s

\* Variant: an infeasible count is kept
FeasibleCount_Unreduced(total, n, min_amount) == n

\* num_trans after the strict-mode feasibility reduction (lines 214-220)
FeasibleCount(total, n, min_amount) ==
    IF total < n * min_amount
    THEN LET feasible == IF total \div min_amount > 1 THEN total \div min_amount ELSE 1
         IN  feasible
    ELSE n

\* Variant: a total equal to the threshold counts as flexible
BelowThreshold_Closed(total, threshold) == total <= threshold

\* total_amount < threshold: the flexible-mode test (lines 198, 325, 426)
BelowThreshold(total, threshold) == total < threshold

\* Number of parts of the Dirichlet draw the call makes (0: no draw)
DrawParts(t2, n, min_amount, threshold) ==
    LET total == IntRound(t2) IN
    IF total <= 0 \/ n <= 1 THEN 0
    ELSE IF BelowThreshold(total, threshold) THEN n
    ELSE LET k == FeasibleCount(total, n, min_amount)
         IN  IF total - k * min_amount <= 0 THEN 0 ELSE k

generate_smart_transaction_amounts(t2, n, alpha, min_amount, threshold, w) ==
    LET total == IntRound(t2) IN
    IF total <= 0 THEN <<>>
    ELSE IF n <= 1 THEN <<total>>
    ELSE IF BelowThreshold(total, threshold)
    THEN LET amts == Shares(w, total)
         IN  AddToMax(amts, total - SumSeq(amts))
    ELSE LET k         == FeasibleCount(total, n, min_amount)
             remaining == total - k * min_amount
         IN  IF remaining <= 0
             THEN LET base == [i \in 1..k |-> min_amount]
                      diff == total - SumSeq(base)
                  IN  IF diff # 0 THEN [base EXCEPT ![k] = @ + diff] ELSE base
             ELSE LET extras == Shares(w, remaining)
                      amts   == [i \in 1..k |-> min_amount + extras[i]]
                  IN  AddToMax(amts, total - SumSeq(amts))

----------------------------------------------------------------------------
(* Category configuration table.  dirichlet_alpha is held in tenths and      *)
(* online_probability and the payment weights in hundredths.  NoDays stands  *)
(* for a configuration without the specific_days key.                        *)

NoDays == <<0>>

Category(range, min_amount, threshold, bias, days, merchants, weights, online, alpha) ==
    [trans_range |-> range, min_transaction_amount |-> min_amount,
     allow_below_min_threshold |-> threshold, date_bias |-> bias,
     specific_days |-> days, merchants |-> merchants, payment_weights |-> weights,
     online_probability |-> online, dirichlet_alpha |-> alpha]

EXPENSE_CATEGORIES ==
    <<"food_expense", "groceries_expense", "education_expense", "subscriptions_expense",
      "fuel_expense", "transportation_expense", "utilities_expense",
      "entertainment_expense", "shopping_expense", "healthcare_expense",
      "personal_care_expense", "miscellaneous_expense">>

TRANSACTION_MODEL(c) ==
    CASE c = "food_expense" ->
           Category(<<15, 50>>, 100, 150, "uniform", NoDays,
             <<"Zomato", "Swiggy", "Local Restaurant", "Cafe Coffee Day", "Dominos",
               "McDonald's", "Subway", "Haldiram's", "Street Food", "Biryani House",
               "KFC", "Pizza Hut", "Burger King", "Food Court", "Dhaba">>,
             <<<<"UPI", 50>>, <<"Credit Card", 20>>, <<"Debit Card", 15>>, <<"Cash", 15>>>>,
             70, 10)
      [] c = "groceries_expense" ->
           Category(<<2, 8>>, 100, 200, "weekend", <<6, 13, 20, 27>>,
             <<"DMart", "Big Bazaar", "Reliance Fresh", "More Supermarket",
               "Spencer's", "Local Kirana", "24Seven", "Nature's Basket">>,
             <<<<"UPI", 40>>, <<"Credit Card", 25>>, <<"Debit Card", 25>>, <<"Cash", 10>>>>,
             30, 20)
      [] c = "education_expense" ->
           Category(<<1, 3>>, 300, 400, "early_month", <<1, 5, 10>>,
             <<"Course Fee", "Udemy", "Coursera", "Books", "Study Material",
               "Tuition", "Library", "Online Class", "Exam Fee">>,
             <<<<"UPI", 30>>, <<"Credit Card", 30>>, <<"Debit Card", 25>>, <<"Net Banking", 15>>>>,
             80, 30)
      [] c = "subscriptions_expense" ->
           Category(<<1, 3>>, 100, 150, "fixed", <<1, 5, 15, 25>>,
             <<"Netflix", "Amazon Prime", "Spotify", "Hotstar", "Gym Membership",
               "Newspaper", "Magazine", "Cloud Storage", "Software License">>,
             <<<<"Credit Card", 50>>, <<"UPI", 30>>, <<"Debit Card", 20>>>>,
             95, 50)
      [] c = "fuel_expense" ->
           Category(<<4, 10>>, 50, 100, "uniform", NoDays,
             <<"HP Petrol Pump", "Indian Oil", "Bharat Petroleum", "Shell",
               "Essar Petrol Pump", "Reliance Petrol">>,
             <<<<"UPI", 45>>, <<"Credit Card", 30>>, <<"Debit Card", 15>>, <<"Cash", 10>>>>,
             20, 15)
      [] c = "transportation_expense" ->
           Category(<<15, 30>>, 50, 100, "weekday", NoDays,
             <<"Uber", "Ola", "Metro Card", "Auto Rickshaw", "Bus Pass",
               "Rapido", "Local Train", "Parking", "Toll">>,
             <<<<"UPI", 60>>, <<"Cash", 25>>, <<"Debit Card", 10>>, <<"Credit Card", 5>>>>,
             75, 8)
      [] c = "utilities_expense" ->
           Category(<<2, 5>>, 100, 150, "early_month", <<1, 3, 5, 7>>,
             <<"Electricity Bill", "Water Bill", "Gas Cylinder", "Internet Bill",
               "Mobile Recharge", "DTH Recharge", "Maintenance Charge">>,
             <<<<"Net Banking", 40>>, <<"UPI", 35>>, <<"Debit Card", 15>>, <<"Credit Card", 10>>>>,
             90, 35)
      [] c = "entertainment_expense" ->
           Category(<<3, 10>>, 150, 250, "weekend", NoDays,
             <<"BookMyShow", "PVR Cinemas", "Inox", "Gaming", "Concert Ticket",
               "Sports Event", "Museum", "Theme Park", "Club Entry">>,
             <<<<"UPI", 45>>, <<"Credit Card", 30>>, <<"Debit Card", 15>>, <<"Cash", 10>>>>,
             85, 15)
      [] c = "shopping_expense" ->
           Category(<<3, 8>>, 100, 200, "mid_to_late_month", <<10, 12, 15, 18, 20, 22, 25>>,
             <<"Amazon", "Flipkart", "Myntra", "Ajio", "Lifestyle", "Pantaloons",
               "Westside", "Local Shop", "Decathlon", "Electronics Store">>,
             <<<<"Credit Card", 35>>, <<"UPI", 40>>, <<"Debit Card", 15>>, <<"Cash", 10>>>>,
             70, 12)
      [] c = "healthcare_expense" ->
           Category(<<1, 3>>, 350, 500, "random", NoDays,
             <<"Apollo Pharmacy", "MedPlus", "Doctor Consultation", "Lab Test",
               "Hospital", "Dental Clinic", "Physiotherapy", "Health Checkup">>,
             <<<<"UPI", 35>>, <<"Cash", 30>>, <<"Credit Card", 20>>, <<"Debit Card", 15>>>>,
             40, 25)
      [] c = "personal_care_expense" ->
           Category(<<2, 6>>, 270, 400, "weekend", NoDays,
             <<"Salon", "Spa", "Barber Shop", "Beauty Parlor", "Cosmetics",
               "Personal Care Products", "Grooming", "Wellness Center">>,
             <<<<"UPI", 40>>, <<"Cash", 35>>, <<"Credit Card", 15>>, <<"Debit Card", 10>>>>,
             35, 20)
      [] c = "miscellaneous_expense" ->
           Category(<<5, 20>>, 150, 250, "uniform", NoDays,
             <<"Gifts", "Charity", "Emergency", "Repairs", "Services",
               "Miscellaneous", "Courier", "ATM Withdrawal", "Bank Charges">>,
             <<<<"UPI", 40>>, <<"Cash", 30>>, <<"Credit Card", 15>>, <<"Debit Card", 15>>>>,
             50, 7)

\* A configuration entry standing for a category with the given floor and
\* threshold (the splitter exercised alone)
PlainConfig(min_amount, threshold) ==
    Category(<<1, 1>>, min_amount, threshold, "uniform", NoDays, <<"M">>,
             <<<<"UPI", 100>>>>, 50, 10)

----------------------------------------------------------------------------
(* Calendar: the datetime library *)

IsLeap(y) == (y % 4 = 0 /\ y % 100 # 0) \/ y % 400 = 0

MonthLength(y, m) ==
    IF m = 2 THEN (IF IsLeap(y) THEN 29 ELSE 28)
    ELSE IF m \in {4, 6, 9, 11} THEN 30 ELSE 31

RECURSIVE DaysBeforeMonth(_, _)
DaysBeforeMonth(y, m) ==
    IF m = 1 THEN 0 ELSE DaysBeforeMonth(y, m - 1) + MonthLength(y, m - 1)

\* datetime(y, m, d).toordinal()
Ordinal(y, m, d) ==
    365 * (y - 1) + ((y - 1) \div 4) - ((y - 1) \div 100) + ((y - 1) \div 400)
      + DaysBeforeMonth(y, m) + d

\* datetime.weekday(): Monday is 0, Sunday is 6
Weekday(dt) == (Ordinal(dt.year, dt.month, dt.day) + 6) % 7

\* datetime(year, month, day, hour, minute)
DateTime(y, m, d, h, mi) == [year |-> y, month |-> m, day |-> d, hour |-> h, minute |-> mi]

\* Ordering of datetimes, as sorted() compares them
DateKey(dt) == ((Ordinal(dt.year, dt.month, dt.day) * 24) + dt.hour) * 60 + dt.minute

\* Variant: every month taken to have 30 days
get_days_in_month_Thirty(y, m) == 30

get_days_in_month(y, m) ==
    IF m = 12 THEN Ordinal(y + 1, 1, 1) - Ordinal(y, m, 1)
    ELSE Ordinal(y, m + 1, 1) - Ordinal(y, m, 1)

----------------------------------------------------------------------------
(* Random draws.  The specification of the date sampler alone draws days and *)
(* times from a wider sample than the specifications that go on to build and *)
(* emit transactions; the specification of the synthesizer alone draws       *)
(* merchants, payment methods and online flags from a wider sample than the  *)
(* whole run.                                                                *)

WideDates == scope = "dates"
WidePicks == scope = "synth"

\* random.randint(lo, hi) for a day of the month
RandDays(lo, hi) ==
    IF WideDates THEN {d \in lo..hi : d \in {lo, hi} \/ d % 5 = 0} ELSE {lo, hi}

\* <<random.randint(hlo, hhi), random.randint(0, 59)>>
RandTimes(hlo, hhi) == IF WideDates THEN {<<hlo, 0>>, <<hhi, 59>>} ELSE {<<hlo, 0>>}

\* Variant: the selection may take the same position more than once
RandomSample_WithReplacement(population, k) ==
    { [i \in 1..k |-> population[f[i]]] : f \in [1..k -> 1..Len(population)] }

\* random.sample(population, k): the ordered selections of k distinct positions
RandomSample(population, k) ==
    { [i \in 1..k |-> population[f[i]]] :
        f \in { g \in [1..k -> 1..Len(population)] :
                  \A a, b \in 1..k : a # b => g[a] # g[b] } }

Min(a, b) == IF a <= b THEN a ELSE b
Max(a, b) == IF a >= b THEN a ELSE b

----------------------------------------------------------------------------
(* Date sampler: generate_dates_with_bias(year, monthnum, dates_n,           *)
(* cfg.date_bias, cfg), one action per loop iteration                        *)

RECURSIVE InsertSorted(_, _)
InsertSorted(s, x) ==
    IF s = <<>> THEN <<x>>
    ELSE IF DateKey(x) < DateKey(Head(s)) THEN <<x>> \o s
    ELSE <<Head(s)>> \o InsertSorted(Tail(s), x)

\* Variant: the result is returned in draw order
Sorted_Unsorted(s) == s

RECURSIVE Sorted(_)
Sorted(s) == IF s = <<>> THEN <<>> ELSE InsertSorted(Sorted(SubSeq(s, 1, Len(s) - 1)), s[Len(s)])

HasSpecificDays(c) == c.specific_days # NoDays

available_days(c, y, m) ==
    SelectSeq(c.specific_days, LAMBDA d : d <= get_days_in_month(y, m))

\* Where the sampler returns to
AfterDates == IF scope \in {"dates", "biased"} THEN "halt" ELSE "build"

\* Day range and hour range of the policies that draw each day independently
SimpleDayRange(bias, dim) ==
    IF bias = "early_month" THEN <<1, Min(10, dim)>>
    ELSE IF bias = "mid_to_late_month" THEN <<10, Min(25, dim)>>
    ELSE <<1, dim>>

SimpleHourRange(bias) ==
    IF bias = "early_month" THEN <<8, 20>>
    ELSE IF bias = "mid_to_late_month" THEN <<11, 21>>
    ELSE <<6, 23>>

\* Variant: the weekend and weekday policies draw the hour from the whole day
BiasedHourRange_AllDay(bias) == <<0, 23>>

BiasedHourRange(bias) == IF bias = "weekend" THEN <<10, 21>> ELSE <<7, 20>>

DatesFrame == UNCHANGED <<scope, df, cols_missing, idx, ci, year, monthnum, user_profile,
                          category, cfg,
                          total_amount, num_trans, amounts, dates_n, trans_list,
                          transaction_counter, stats, buffer_rows, flushed, fout, error>>

\* lines 246-251, 262, 267, 280, 292, 297: entry and dispatch on the policy
DatesEnter ==
    /\ pc = "dates"
    /\ dates' = <<>>
    /\ tries' = 0
    /\ chosen' = <<>>
    /\ pc' = IF dates_n <= 0 THEN AfterDates
             ELSE IF cfg.date_bias = "fixed" /\ HasSpecificDays(cfg) THEN "fixed_sample"
             ELSE IF cfg.date_bias \in {"weekend", "weekday"} THEN "biased_loop"
             ELSE "simple_loop"
    /\ DatesFrame

\* lines 255-258: one iteration of the while loop of the fixed policy
FixedSample ==
    /\ pc = "fixed_sample"
    /\ LET avail == available_days(cfg, year, monthnum)
           k     == Min(Len(avail), dates_n - Len(chosen))
       IN  \E smp \in RandomSample(avail, k) :
             /\ chosen' = chosen \o smp
             /\ pc' = IF Len(chosen') < dates_n /\ avail # <<>> THEN "fixed_sample"
                      ELSE IF chosen' = <<>> THEN "sort"
                      ELSE "fixed_dates"
    /\ UNCHANGED <<dates, tries>>
    /\ DatesFrame

\* lines 259-260: one iteration of the for loop over chosen[:num_trans]
FixedDates ==
    /\ pc = "fixed_dates"
    /\ LET d == chosen[Len(dates) + 1]
       IN  \E t \in RandTimes(0, 23) :
             dates' = Append(dates, DateTime(year, monthnum, d, t[1], t[2]))
    /\ pc' = IF Len(dates') < Min(Len(chosen), dates_n) THEN "fixed_dates" ELSE "sort"
    /\ UNCHANGED <<tries, chosen>>
    /\ DatesFrame

\* lines 262-265, 292-295, 297-300: one iteration of the early_month,
\* mid_to_late_month or uniform loop
SimpleDraw ==
    /\ pc = "simple_loop"
    /\ LET dim == get_days_in_month(year, monthnum)
           dr  == SimpleDayRange(cfg.date_bias, dim)
           hr  == SimpleHourRange(cfg.date_bias)
       IN  \E day \in RandDays(dr[1], dr[2]), t \in RandTimes(hr[1], hr[2]) :
             dates' = Append(dates, DateTime(year, monthnum, day, t[1], t[2]))
    /\ pc' = IF Len(dates') < dates_n THEN "simple_loop" ELSE "sort"
    /\ UNCHANGED <<tries, chosen>>
    /\ DatesFrame

\* Variant: the rejection loop has no limit on its attempts
BiasedDraw_NoLimit ==
    /\ pc = "biased_loop"
    /\ LET dim == get_days_in_month(year, monthnum)
           hr  == BiasedHourRange(cfg.date_bias)
       IN  \E d \in RandDays(1, dim), t \in RandTimes(hr[1], hr[2]), lucky \in BOOLEAN :
             LET dt == DateTime(year, monthnum, d, t[1], t[2])
                 accept == IF cfg.date_bias = "weekend"
                           THEN Weekday(dt) >= 5 \/ lucky
                           ELSE Weekday(dt) < 5 \/ lucky
             IN  dates' = IF accept THEN Append(dates, dt) ELSE dates
    /\ tries' = tries + 1
    /\ pc' = IF Len(dates') < dates_n THEN "biased_loop" ELSE "sort"
    /\ UNCHANGED chosen
    /\ DatesFrame

\* lines 270-275, 282-287: one attempt of the weekend or weekday loop
BiasedDraw ==
    /\ pc = "biased_loop"
    /\ LET dim == get_days_in_month(year, monthnum)
           hr  == BiasedHourRange(cfg.date_bias)
       IN  \E d \in RandDays(1, dim), t \in RandTimes(hr[1], hr[2]), lucky \in BOOLEAN :
             LET dt == DateTime(year, monthnum, d, t[1], t[2])
                 accept == IF cfg.date_bias = "weekend"
                           THEN Weekday(dt) >= 5 \/ lucky
                           ELSE Weekday(dt) < 5 \/ lucky
             IN  dates' = IF accept THEN Append(dates, dt) ELSE dates
    /\ tries' = tries + 1
    /\ pc' = IF Len(dates') < dates_n /\ tries' < dates_n * 5 THEN "biased_loop"
             ELSE IF Len(dates') < dates_n THEN "topup"
             ELSE "sort"
    /\ UNCHANGED chosen
    /\ DatesFrame

\* lines 276-278, 288-290: one iteration of the top-up loop
TopUp ==
    /\ pc = "topup"
    /\ LET dim == get_days_in_month(year, monthnum)
           hr  == BiasedHourRange(cfg.date_bias)
       IN  \E d \in RandDays(1, dim), t \in RandTimes(hr[1], hr[2]) :
             dates' = Append(dates, DateTime(year, monthnum, d, t[1], t[2]))
    /\ pc' = IF Len(dates') < dates_n THEN "topup" ELSE "sort"
    /\ UNCHANGED <<tries, chosen>>
    /\ DatesFrame

\* lines 302-303
SortDates ==
    /\ pc = "sort"
    /\ dates' = Sorted(dates)
    /\ pc' = AfterDates
    /\ UNCHANGED <<tries, chosen>>
    /\ DatesFrame

----------------------------------------------------------------------------
(* Amount splitter call: line 343 *)

Split ==
    /\ pc = "amounts"
    /\ LET min_amt   == cfg.min_transaction_amount
           threshold == cfg.allow_below_min_threshold
           alpha     == cfg.dirichlet_alpha
       IN  \E w \in DirichletOutcomes(DrawParts(total_amount, num_trans, min_amt, threshold)) :
             amounts' = generate_smart_transaction_amounts(
                            total_amount, num_trans, alpha, min_amt, threshold, w)
    /\ pc' = IF scope \in {"split", "count"} THEN "halt" ELSE "dates"
    /\ dates_n' = IF scope \in {"split", "count"} THEN dates_n ELSE Len(amounts')
    /\ UNCHANGED <<scope, df, cols_missing, idx, ci, year, monthnum, user_profile, category,
                   cfg, total_amount, num_trans, dates, tries, chosen, trans_list,
                   transaction_counter, stats, buffer_rows, flushed, fout, error>>

----------------------------------------------------------------------------
(* Per-category synthesizer: generate_transactions_for_category *)

CategorySet == {EXPENSE_CATEGORIES[i] : i \in 1..Len(EXPENSE_CATEGORIES)}

\* Variant: the suffix is kept
StripExpense_Kept(c) == c

\* category.replace("_expense", "")
StripExpense(c) ==
    CASE c = "food_expense" -> "food"
      [] c = "groceries_expense" -> "groceries"
      [] c = "education_expense" -> "education"
      [] c = "subscriptions_expense" -> "subscriptions"
      [] c = "fuel_expense" -> "fuel"
      [] c = "transportation_expense" -> "transportation"
      [] c = "utilities_expense" -> "utilities"
      [] c = "entertainment_expense" -> "entertainment"
      [] c = "shopping_expense" -> "shopping"
      [] c = "healthcare_expense" -> "healthcare"
      [] c = "personal_care_expense" -> "personal_care"
      [] c = "miscellaneous_expense" -> "miscellaneous"
      [] OTHER -> c

\* Where the synthesizer returns to
AfterSynth == IF scope \in {"synth", "count"} THEN "halt" ELSE "emit"

\* Variant: the count is drawn from the flexible range whatever the total
CountRange_FlexibleOnly(c, total, archetype) == <<1, Max(1, c.trans_range[1] \div 2)>>

\* Variant: the archetype does not bias the count
CountRange_NoArchetype(c, total, archetype) ==
    LET max_possible == Max(1, total \div (2 * c.min_transaction_amount))
    IN  IF BelowThreshold(total, 2 * c.allow_below_min_threshold)
        THEN <<1, Max(1, c.trans_range[1] \div 2)>>
        ELSE <<Min(c.trans_range[1], max_possible), Min(c.trans_range[2], max_possible)>>

\* Variant: the configured range is not clamped to the feasible maximum
CountRange_Unclamped(c, total, archetype) ==
    IF BelowThreshold(total, 2 * c.allow_below_min_threshold)
    THEN <<1, Max(1, c.trans_range[1] \div 2)>>
    ELSE c.trans_range

\* Variant: the two halves of the strict range are given to the wrong archetypes
CountRange_SwappedBias(c, total, archetype) ==
    LET min_amt   == c.min_transaction_amount
        threshold == c.allow_below_min_threshold
        min_trans == c.trans_range[1]
        max_trans == c.trans_range[2]
    IN  IF BelowThreshold(total, 2 * threshold)
        THEN <<1, Max(1, min_trans \div 2)>>
        ELSE LET max_possible == Max(1, total \div (2 * min_amt))
                 max_t == Min(max_trans, max_possible)
                 min_t == Min(min_trans, max_possible)
                 half  == Max(0, (max_t - min_t) \div 2)
             IN  IF archetype = "impulsive_spender" THEN <<min_t + half, max_t>>
                 ELSE IF archetype \in {"meticulous_tracker", "balanced_planner"}
                      THEN <<min_t, min_t + half>>
                 ELSE <<min_t, max_t>>

\* The range random.randint draws num_trans from (lines 325-337); total in half units
CountRange(c, total, archetype) ==
    LET min_amt   == c.min_transaction_amount
        threshold == c.allow_below_min_threshold
        min_trans == c.trans_range[1]
        max_trans == c.trans_range[2]
    IN  IF BelowThreshold(total, 2 * threshold)
        THEN <<1, Max(1, min_trans \div 2)>>
        ELSE LET max_possible == Max(1, total \div (2 * min_amt))
                 max_t == Min(max_trans, max_possible)
                 min_t == Min(min_trans, max_possible)
                 half  == Max(0, (max_t - min_t) \div 2)
             IN  IF archetype = "impulsive_spender" THEN <<min_t, min_t + half>>
                 ELSE IF archetype \in {"meticulous_tracker", "balanced_planner"}
                      THEN <<min_t + half, max_t>>
                 ELSE <<min_t, max_t>>

\* Variant: a call of the synthesizer takes a transaction identifier
SynthFrame_TakesId ==
    /\ transaction_counter' = transaction_counter + 1
    /\ UNCHANGED <<scope, df, cols_missing, idx, ci, year, monthnum, user_profile,
                   category, total_amount, amounts, dates_n, dates, tries, chosen,
                   stats, buffer_rows, flushed, fout, error>>

SynthFrame == UNCHANGED <<scope, df, cols_missing, idx, ci, year, monthnum, user_profile,
                          category, total_amount, amounts, dates_n, dates, tries, chosen,
                          transaction_counter, stats, buffer_rows, flushed, fout, error>>

\* lines 316-339
SynthEnter ==
    /\ pc = "synth"
    /\ trans_list' = <<>>
    /\ IF total_amount <= 0 \/ category \notin CategorySet
       THEN /\ pc' = AfterSynth
            /\ UNCHANGED <<cfg, num_trans>>
       ELSE /\ cfg' = TRANSACTION_MODEL(category)
            /\ LET r == CountRange(cfg', total_amount, user_profile)
               IN  \E n \in r[1]..r[2] : num_trans' = Max(1, n)
            /\ pc' = "amounts"
    /\ SynthFrame

\* random.choice(cfg["merchants"])
RandMerchants(c) ==
    IF WidePicks THEN {c.merchants[1], c.merchants[Len(c.merchants)]} ELSE {c.merchants[1]}

\* select_payment_method(cfg["payment_weights"]): a method of positive weight (the
\* first and the last of them, or the first only)
select_payment_method(weights) ==
    LET positive == {i \in 1..Len(weights) : weights[i][2] > 0}
        first    == CHOOSE i \in positive : \A j \in positive : i <= j
        last     == CHOOSE i \in positive : \A j \in positive : i >= j
    IN  IF WidePicks THEN {weights[first][1], weights[last][1]} ELSE {weights[first][1]}

\* random.random() < cfg["online_probability"]
RandOnline(c) ==
    IF c.online_probability <= 0 THEN {FALSE}
    ELSE IF c.online_probability >= 100 \/ ~WidePicks THEN {TRUE}
    ELSE BOOLEAN

\* lines 349-361: one iteration of the loop over amounts
BuildOne ==
    /\ pc = "build"
    /\ Len(trans_list) < Len(amounts)
    /\ LET i == Len(trans_list) + 1
           date_obj == IF i <= Len(dates) THEN dates[i]
                       ELSE IF dates # <<>> THEN dates[Len(dates)]
                       ELSE DateTime(year, monthnum, 1, 12, 0)
       IN  \E merchant \in RandMerchants(cfg),
              payment_method \in select_payment_method(cfg.payment_weights),
              is_online \in RandOnline(cfg) :
             trans_list' = Append(trans_list,
                 [date |-> date_obj, amount |-> amounts[i], merchant |-> merchant,
                  payment_method |-> payment_method, is_online |-> is_online,
                  category |-> StripExpense(category)])
    /\ UNCHANGED <<pc, cfg, num_trans>>
    /\ SynthFrame

\* line 362
BuildReturn ==
    /\ pc = "build"
    /\ Len(trans_list) = Len(amounts)
    /\ pc' = AfterSynth
    /\ UNCHANGED <<trans_list, cfg, num_trans>>
    /\ SynthFrame

----------------------------------------------------------------------------
(* Transaction identifiers: f"TXN-{transaction_counter:08d}" *)

RECURSIVE Digits(_)
Digits(n) == IF n < 10 THEN <<n>> ELSE Append(Digits(n \div 10), n % 10)

RECURSIVE ZeroPad(_, _)
ZeroPad(s, width) == IF Len(s) >= width THEN s ELSE ZeroPad(<<0>> \o s, width)

\* Variant: no zero padding
FormatTxnId_NoPad(n) == [prefix |-> "TXN-", digits |-> Digits(n)]

\* f"TXN-{n:08d}": at least 8 digits, zero-padded
FormatTxnId(n) == [prefix |-> "TXN-", digits |-> ZeroPad(Digits(n), 8)]

----------------------------------------------------------------------------
(* Streaming driver: generate_all_transactions_stream *)

\* flush threshold in input rows (500 in the source, scaled to the model's inputs)
FLUSH_BATCH_USERS == 2

Header == [transaction_id |-> "transaction_id"]

\* What the output path holds before the run when a file of that name exists
Previous == [transaction_id |-> "previous content"]

\* required_cols (line 370)
required_cols == {"user_id", "month_index", "month_start_date"} \cup CategorySet

\* Variant: the month index taken as the calendar month of 2024
month_order_Calendar ==
    <<<<2024, 1>>, <<2024, 2>>, <<2024, 3>>, <<2024, 4>>, <<2024, 5>>, <<2024, 6>>,
      <<2024, 7>>, <<2024, 8>>, <<2024, 9>>, <<2024, 10>>, <<2024, 11>>, <<2024, 12>>>>

\* mapping month_index 1..12 -> May 2024 .. Apr 2025 (lines 397-398)
month_order ==
    <<<<2024, 5>>, <<2024, 6>>, <<2024, 7>>, <<2024, 8>>, <<2024, 9>>, <<2024, 10>>,
      <<2024, 11>>, <<2024, 12>>, <<2025, 1>>, <<2025, 2>>, <<2025, 3>>, <<2025, 4>>>>

\* A cell of the input is <<v>> (v in half units) or <<>> (NaN / empty);
\* float(row.get(cat, 0) if not pd.isna(row.get(cat, 0)) else 0)
CellTotal(row, cat) == IF row.expenses[cat] = <<>> THEN 0 ELSE row.expenses[cat][1]

\* Variant: no month_start_date is taken as parseable
Parses_Never(date) == FALSE

\* datetime.strptime(str(row["month_start_date"]), "%Y-%m-%d") succeeds
Parses(date) == date # <<>>

\* Variant: the counter is not advanced inside the loop over the unit's transactions
OutRows_SameId(row, list, counter) ==
    [k \in 1..Len(list) |->
        [transaction_id |-> [prefix |-> "TXN-", digits |-> ZeroPad(Digits(counter), 8)],
         user_id |-> row.user_id,
         date |-> list[k].date,
         month_index |-> row.month_index,
         category |-> list[k].category,
         merchant |-> list[k].merchant,
         amount |-> list[k].amount,
         payment_method |-> list[k].payment_method,
         is_online |-> IF list[k].is_online THEN 1 ELSE 0,
         description |-> <<list[k].merchant, list[k].category>>]]

\* Variant: the unit's transactions are written from the last to the first
OutRows_Reversed(row, list, counter) ==
    [k \in 1..Len(list) |->
        [transaction_id |-> FormatTxnId(counter + k - 1),
         user_id |-> row.user_id,
         date |-> list[Len(list) + 1 - k].date,
         month_index |-> row.month_index,
         category |-> list[Len(list) + 1 - k].category,
         merchant |-> list[Len(list) + 1 - k].merchant,
         amount |-> list[Len(list) + 1 - k].amount,
         payment_method |-> list[Len(list) + 1 - k].payment_method,
         is_online |-> IF list[Len(list) + 1 - k].is_online THEN 1 ELSE 0,
         description |-> <<list[Len(list) + 1 - k].merchant,
                           list[Len(list) + 1 - k].category>>]]

\* the rows written for one unit (lines 431-446)
OutRows(row, list, counter) ==
    [k \in 1..Len(list) |->
        [transaction_id |-> FormatTxnId(counter + k - 1),
         user_id |-> row.user_id,
         date |-> list[k].date,
         month_index |-> row.month_index,
         category |-> list[k].category,
         merchant |-> list[k].merchant,
         amount |-> list[k].amount,
         payment_method |-> list[k].payment_method,
         is_online |-> IF list[k].is_online THEN 1 ELSE 0,
         description |-> <<list[k].merchant, list[k].category>>]]

UnitFrame == UNCHANGED <<scope, df, cols_missing, cfg, num_trans, amounts, dates_n, dates,
                         tries, chosen>>

\* Variant: the output file is opened before the columns are checked
Start_OpensFirst ==
    /\ pc = "start"
    /\ fout' = <<>>
    /\ IF cols_missing # {}
       THEN /\ error' = "KeyError"
            /\ pc' = "done"
       ELSE /\ pc' = "open"
            /\ UNCHANGED error
    /\ UNCHANGED <<idx, ci, year, monthnum, user_profile, category, total_amount, trans_list,
                   transaction_counter, stats, buffer_rows, flushed>>
    /\ UnitFrame

\* lines 369-373: read the input, check the columns; cols_missing is
\* required_cols - set(df.columns)
Start ==
    /\ pc = "start"
    /\ IF cols_missing # {}
       THEN /\ error' = "KeyError"
            /\ pc' = "done"
       ELSE /\ pc' = "open"
            /\ UNCHANGED error
    /\ UNCHANGED <<idx, ci, year, monthnum, user_profile, category, total_amount, trans_list,
                   transaction_counter, stats, buffer_rows, flushed, fout>>
    /\ UnitFrame

\* line 379: open(output_csv, "w") creates or truncates the file
OpenOutput ==
    /\ pc = "open"
    /\ fout' = <<>>
    /\ pc' = "header"
    /\ UNCHANGED <<idx, ci, year, monthnum, user_profile, category, total_amount, trans_list,
                   transaction_counter, stats, buffer_rows, flushed, error>>
    /\ UnitFrame

\* lines 380-385: the header is written and the file closed
WriteHeader ==
    /\ pc = "header"
    /\ fout' = <<Header>>
    /\ pc' = IF df = <<>> THEN "final" ELSE "row"
    /\ UNCHANGED <<idx, ci, year, monthnum, user_profile, category, total_amount, trans_list,
                   transaction_counter, stats, buffer_rows, flushed, error>>
    /\ UnitFrame

\* Where the step that resolves the month goes on to
AfterRow == IF scope = "row" THEN "halt" ELSE "cat"

\* lines 388-413: resolve the month of the row
RowBegin ==
    /\ pc = "row"
    /\ LET row == df[idx + 1]
       IN  IF Parses(row.month_start_date)
           THEN /\ year' = row.month_start_date[1]
                /\ monthnum' = row.month_start_date[2]
                /\ pc' = AfterRow
                /\ UNCHANGED error
           ELSE IF 1 <= row.month_index /\ row.month_index <= 12
           THEN /\ year' = month_order[row.month_index][1]
                /\ monthnum' = month_order[row.month_index][2]
                /\ pc' = AfterRow
                /\ UNCHANGED error
           ELSE /\ error' = "ValueError"
                /\ pc' = "done"
                /\ UNCHANGED <<year, monthnum>>
    /\ IF pc' # "done"
       THEN user_profile' = df[idx + 1].user_archetype /\ ci' = 1
       ELSE UNCHANGED <<user_profile, ci>>
    /\ UNCHANGED <<idx, category, total_amount, trans_list, transaction_counter, stats,
                   buffer_rows, flushed, fout>>
    /\ UnitFrame

\* Position after the body of the category loop
NextCat == IF ci < Len(EXPENSE_CATEGORIES) THEN "cat" ELSE "endrow"

\* Variant: a skipped unit still takes an identifier
CatBegin_ReservesId ==
    /\ pc = "cat"
    /\ LET cat   == EXPENSE_CATEGORIES[ci]
           total == CellTotal(df[idx + 1], cat)
       IN  IF total <= 0
           THEN /\ pc' = NextCat
                /\ ci' = ci + 1
                /\ transaction_counter' = transaction_counter + 1
                /\ UNCHANGED <<category, total_amount>>
           ELSE /\ category' = cat
                /\ total_amount' = total
                /\ pc' = "synth"
                /\ UNCHANGED <<ci, transaction_counter>>
    /\ UNCHANGED <<idx, year, monthnum, user_profile, trans_list, stats,
                   buffer_rows, flushed, fout, error>>
    /\ UnitFrame

\* lines 416-422: one iteration of the category loop, up to the synthesizer call
CatBegin ==
    /\ pc = "cat"
    /\ LET cat   == EXPENSE_CATEGORIES[ci]
           total == CellTotal(df[idx + 1], cat)
       IN  IF total <= 0
           THEN /\ pc' = NextCat
                /\ ci' = ci + 1
                /\ UNCHANGED <<category, total_amount>>
           ELSE /\ category' = cat
                /\ total_amount' = total
                /\ pc' = "synth"
                /\ UNCHANGED ci
    /\ UNCHANGED <<idx, year, monthnum, user_profile, trans_list, transaction_counter, stats,
                   buffer_rows, flushed, fout, error>>
    /\ UnitFrame

\* Where the emission loop goes on
AfterEmit == IF scope = "emit" THEN "halt" ELSE NextCat

\* Variant: tx_count is advanced once per unit, not once per transaction
Emit_CountsUnits ==
    /\ pc = "emit"
    /\ LET cat       == EXPENSE_CATEGORIES[ci]
           threshold == TRANSACTION_MODEL(cat).allow_below_min_threshold
           flexible  == BelowThreshold(total_amount, 2 * threshold)
       IN  stats' = [stats EXCEPT
                       !.flexible = IF flexible THEN @ + 1 ELSE @,
                       !.strict   = IF flexible THEN @ ELSE @ + 1,
                       !.tx_count = @ + 1]
    /\ buffer_rows' = buffer_rows \o OutRows(df[idx + 1], trans_list, transaction_counter)
    /\ transaction_counter' = transaction_counter + Len(trans_list)
    /\ pc' = AfterEmit
    /\ ci' = ci + 1
    /\ num_trans' = 0
    /\ amounts' = <<>>
    /\ dates_n' = 0
    /\ dates' = <<>>
    /\ tries' = 0
    /\ chosen' = <<>>
    /\ UNCHANGED <<scope, df, cols_missing, cfg, idx, year, monthnum, user_profile, category,
                   total_amount, trans_list, flushed, fout, error>>

\* lines 424-446: statistics and emission of the unit's transactions; the locals of
\* the finished synthesizer call are gone
Emit ==
    /\ pc = "emit"
    /\ LET cat       == EXPENSE_CATEGORIES[ci]
           threshold == TRANSACTION_MODEL(cat).allow_below_min_threshold
           flexible  == BelowThreshold(total_amount, 2 * threshold)
       IN  stats' = [stats EXCEPT
                       !.flexible = IF flexible THEN @ + 1 ELSE @,
                       !.strict   = IF flexible THEN @ ELSE @ + 1,
                       !.tx_count = @ + Len(trans_list)]
    /\ buffer_rows' = buffer_rows \o OutRows(df[idx + 1], trans_list, transaction_counter)
    /\ transaction_counter' = transaction_counter + Len(trans_list)
    /\ pc' = AfterEmit
    /\ ci' = ci + 1
    /\ num_trans' = 0
    /\ amounts' = <<>>
    /\ dates_n' = 0
    /\ dates' = <<>>
    /\ tries' = 0
    /\ chosen' = <<>>
    /\ UNCHANGED <<scope, df, cols_missing, cfg, idx, year, monthnum, user_profile, category,
                   total_amount, trans_list, flushed, fout, error>>

\* Variant: the buffer is flushed on multiples of the threshold only
ShouldFlush_MultiplesOnly(rows_processed, i, n) == rows_processed % FLUSH_BATCH_USERS = 0

\* line 451: the flush condition, for row index i of n rows
ShouldFlush(rows_processed, i, n) ==
    rows_processed % FLUSH_BATCH_USERS = 0 \/ i = n - 1

\* lines 448-451: end of the row
EndRow ==
    /\ pc = "endrow"
    /\ stats' = [stats EXCEPT !.rows_processed = @ + 1]
    /\ idx' = idx + 1
    /\ pc' = IF ShouldFlush(stats'.rows_processed, idx, Len(df)) THEN "flush"
             ELSE IF idx + 1 < Len(df) THEN "row" ELSE "final"
    /\ UNCHANGED <<ci, year, monthnum, user_profile, category, total_amount, trans_list,
                   transaction_counter, buffer_rows, flushed, fout, error>>
    /\ UnitFrame

\* Variant: a row of the batch is written twice
WriteRow_Twice(file, row) == Append(Append(file, row), row)

\* one row appended to the file by writer.writerows
WriteRow(file, row) == Append(file, row)

\* lines 452-454, 463-465: writerows(buffer_rows) on the file opened for append,
\* one row at a time
FlushWrite ==
    /\ pc \in {"flush", "final_flush"}
    /\ flushed < Len(buffer_rows)
    /\ fout' = WriteRow(fout, buffer_rows[flushed + 1])
    /\ flushed' = flushed + 1
    /\ UNCHANGED <<pc, idx, ci, year, monthnum, user_profile, category, total_amount,
                   trans_list, transaction_counter, stats, buffer_rows, error>>
    /\ UnitFrame

\* Variant: the buffer is not emptied after the batch is written
FlushClose_KeepsBuffer ==
    /\ pc \in {"flush", "final_flush"}
    /\ flushed = Len(buffer_rows)
    /\ buffer_rows' = buffer_rows
    /\ flushed' = 0
    /\ pc' = IF pc = "final_flush" THEN "done"
             ELSE IF idx < Len(df) THEN "row" ELSE "final"
    /\ UNCHANGED <<idx, ci, year, monthnum, user_profile, category, total_amount, trans_list,
                   transaction_counter, stats, fout, error>>
    /\ UnitFrame

\* lines 455, 466: the file is closed and buffer_rows = []
FlushClose ==
    /\ pc \in {"flush", "final_flush"}
    /\ flushed = Len(buffer_rows)
    /\ buffer_rows' = <<>>
    /\ flushed' = 0
    /\ pc' = IF pc = "final_flush" THEN "done"
             ELSE IF idx < Len(df) THEN "row" ELSE "final"
    /\ UNCHANGED <<idx, ci, year, monthnum, user_profile, category, total_amount, trans_list,
                   transaction_counter, stats, fout, error>>
    /\ UnitFrame

\* lines 461-475: final flush (if any) and summary
FinalFlush ==
    /\ pc = "final"
    /\ pc' = IF buffer_rows # <<>> THEN "final_flush" ELSE "done"
    /\ UNCHANGED <<idx, ci, year, monthnum, user_profile, category, total_amount, trans_list,
                   transaction_counter, stats, buffer_rows, flushed, fout, error>>
    /\ UnitFrame

\* The process is terminated from outside while the driver runs; the file keeps
\* what has been written
Kill ==
    /\ scope = "run"
    /\ pc \notin {"done", "killed"}
    /\ pc' = "killed"
    /\ UNCHANGED <<idx, ci, year, monthnum, user_profile, category, total_amount, trans_list,
                   transaction_counter, stats, buffer_rows, flushed, fout, error>>
    /\ UnitFrame

----------------------------------------------------------------------------
(* Initial states *)

NoStats == [flexible |-> 0, strict |-> 0, tx_count |-> 0, rows_processed |-> 0]

\* The driver's counters before the first row
Fresh ==
    /\ ci = 1
    /\ trans_list = <<>>
    /\ transaction_counter = 1
    /\ stats = NoStats

\* The other variables at their values before the function under test is entered
Entry(sc, p, input, missing, file, y, m, arch, cat, c, total, n, dn) ==
    /\ scope = sc
    /\ pc = p
    /\ df = input
    /\ cols_missing = missing
    /\ idx = 0
    /\ year = y
    /\ monthnum = m
    /\ user_profile = arch
    /\ category = cat
    /\ cfg = c
    /\ total_amount = total
    /\ num_trans = n
    /\ amounts = <<>>
    /\ dates_n = dn
    /\ dates = <<>>
    /\ tries = 0
    /\ chosen = <<>>
    /\ buffer_rows = <<>>
    /\ flushed = 0
    /\ fout = file
    /\ error = "none"

\* The splitter alone: every total (in half units), count, floor and threshold
\* within the bounds; as in every entry of TRANSACTION_MODEL the threshold is
\* above the floor.
SmallSplitInputs ==
    { <<PlainConfig(min_amt, min_amt + gap), total, n>> :
        min_amt \in 1..MaxMin, gap \in 1..MaxGap, total \in 0..(2 * MaxTotal),
        n \in 0..MaxCount }

\* The splitter as the synthesizer calls it: a category of TRANSACTION_MODEL, a
\* sample total (in half units) and a count the synthesizer can draw for it
UnitSamples ==
    { <<"fuel_expense", 506>>, <<"fuel_expense", 6>>, <<"groceries_expense", 2400>>,
      <<"food_expense", 299>>, <<"subscriptions_expense", 300>> }

ConfigSplitInputs ==
    UNION { LET c == TRANSACTION_MODEL(u[1])
                r == CountRange(c, u[2], "")
            IN  { <<c, u[2], Max(1, n)>> : n \in r[1]..r[2] }
            : u \in UnitSamples }

InitSplit ==
    \E in \in SmallSplitInputs \cup ConfigSplitInputs :
        /\ Entry("split", "amounts", <<>>, {}, <<>>, 2024, 5, "", "", in[1], in[2], in[3], 0)
        /\ Fresh

NextSplit == Split

SpecSplit == InitSplit /\ [][NextSplit]_vars

\* The date sampler alone
MonthSamples == {<<2024, 2>>, <<2025, 2>>, <<2024, 12>>, <<2025, 4>>, <<2024, 5>>}

DayListSamples == {<<1, 5, 15, 25>>, <<15, 31>>, <<30, 31>>, <<29, 30, 31>>, NoDays}

DateConfigSamples ==
    { [PlainConfig(1, 2) EXCEPT !.date_bias = "fixed", !.specific_days = sd] :
        sd \in DayListSamples }
    \cup { [PlainConfig(1, 2) EXCEPT !.date_bias = b] :
             b \in {"early_month", "weekend", "weekday", "mid_to_late_month",
                    "uniform", "random"} }

\* The fixed policy is also called with one transaction more than the other
\* policies, so that two anchor days are cycled through
InitDates ==
    \E ym \in MonthSamples, c \in DateConfigSamples, n \in 0..(MaxDates + 1) :
        /\ n <= MaxDates \/ (c.date_bias = "fixed" /\ HasSpecificDays(c))
        /\ Entry("dates", "dates", <<>>, {}, <<>>, ym[1], ym[2], "", "", c, 0, 0, n)
        /\ Fresh

NextDates ==
    \/ DatesEnter
    \/ FixedSample
    \/ FixedDates
    \/ SimpleDraw
    \/ BiasedDraw
    \/ TopUp
    \/ SortDates

SpecDates == InitDates /\ [][NextDates]_vars

\* The weekend and weekday policies alone (lines 267-290), in a month whose
\* first and last days are weekdays and in one that starts on a Saturday, the
\* day drawn being the first or the last of the month, always taking the next
\* step: the interpreter runs the call to its return
BiasedMonthSamples == {<<2024, 5>>, <<2025, 2>>}

InitBiased ==
    \E ym \in BiasedMonthSamples, b \in {"weekend", "weekday"}, n \in 0..MaxDates :
        /\ Entry("biased", "dates", <<>>, {}, <<>>, ym[1], ym[2], "", "",
                 [PlainConfig(1, 2) EXCEPT !.date_bias = b], 0, 0, n)
        /\ Fresh

NextBiased ==
    \/ DatesEnter
    \/ BiasedDraw
    \/ TopUp
    \/ SortDates

SpecBiasedFair == InitBiased /\ [][NextBiased]_vars /\ WF_vars(NextBiased)

\* The whole driver: the input is any sequence of at most MaxRows sample rows
Row(uid, mi, date, archetype, cells) ==
    [user_id |-> uid, month_index |-> mi, month_start_date |-> date,
     user_archetype |-> archetype,
     expenses |-> [c \in CategorySet |-> IF c \in DOMAIN cells THEN cells[c] ELSE <<0>>]]

RowSamples ==
    { Row("U001", 1, <<2024, 5, 1>>, "impulsive_spender",
          ("groceries_expense" :> <<200>> @@ "subscriptions_expense" :> <<300>>)),
      Row("U002", 10, <<>>, "balanced_planner",
          ("education_expense" :> <<-10>> @@ "fuel_expense" :> <<1>>
             @@ "utilities_expense" :> <<301>> @@ "healthcare_expense" :> <<>>)),
      Row("U001", 2, <<2024, 6, 1>>, "",
          ("education_expense" :> <<599>>)),
      Row("U003", 13, <<>>, "",
          ("food_expense" :> <<400>>)),
      Row("U003", 8, <<>>, "meticulous_tracker",
          ("fuel_expense" :> <<6>>)) }

RECURSIVE SeqsUpTo(_, _)
SeqsUpTo(S, n) ==
    IF n = 0 THEN {<<>>}
    ELSE LET shorter == SeqsUpTo(S, n - 1)
         IN  shorter \cup {Append(q, x) : q \in shorter, x \in S}

\* Longer inputs, up to one row past twice the flush threshold, of a row with one
\* single-transaction unit
LongRow == Row("U001", 2, <<2024, 6, 1>>, "", ("education_expense" :> <<599>>))

LongInputs ==
    { [k \in 1..n |-> LongRow] : n \in (MaxRows + 1)..(2 * FLUSH_BATCH_USERS + 1) }

\* required_cols - set(df.columns) for sample inputs
MissingSamples ==
    { {}, {"user_id"}, {"month_index"}, {"month_start_date"}, {"miscellaneous_expense"},
      {"food_expense", "fuel_expense"} }

Init ==
    \E input \in SeqsUpTo(RowSamples, MaxRows) \cup LongInputs,
       missing \in MissingSamples, file \in {<<>>, <<Previous>>} :
        /\ Entry("run", "start", input, missing, file, 0, 0, "", "", PlainConfig(1, 2), 0, 0, 0)
        /\ Fresh

Next ==
    \/ Start
    \/ OpenOutput
    \/ WriteHeader
    \/ RowBegin
    \/ CatBegin
    \/ SynthEnter
    \/ Split
    \/ DatesEnter
    \/ FixedSample
    \/ FixedDates
    \/ SimpleDraw
    \/ BiasedDraw
    \/ TopUp
    \/ SortDates
    \/ BuildOne
    \/ BuildReturn
    \/ Emit
    \/ EndRow
    \/ FlushWrite
    \/ FlushClose
    \/ FinalFlush
    \/ Kill

Spec == Init /\ [][Next]_vars

\* The emission loop alone, at any position of a long run: the counter is at a
\* sample value c, c - 1 transactions having been emitted before
CounterSamples ==
    (1..12) \cup {99, 100, 999, 1000, 9999, 10000, 99999, 100000, 999999, 1000000,
                  9999999, 10000000, 99999998, 99999999, 100000000}

SampleTransaction ==
    [date |-> DateTime(2024, 5, 1, 0, 0), amount |-> 150, merchant |-> "Netflix",
     payment_method |-> "Credit Card", is_online |-> TRUE, category |-> "subscriptions"]

InitEmit ==
    \E c \in CounterSamples, n \in 1..MaxEmit :
        /\ Entry("emit", "emit",
                 <<Row("U001", 1, <<2024, 5, 1>>, "", ("subscriptions_expense" :> <<300>>))>>,
                 {}, <<Header>>, 2024, 5, "", "subscriptions_expense",
                 TRANSACTION_MODEL("subscriptions_expense"), 300, 0, 0)
        /\ ci = 4
        /\ trans_list = [k \in 1..n |-> SampleTransaction]
        /\ transaction_counter = c
        /\ stats = [NoStats EXCEPT !.tx_count = c - 1]

NextEmit == Emit

SpecEmit == InitEmit /\ [][NextEmit]_vars

\* The archetypes the count selection distinguishes, and one it does not
ArchetypeSamples == {"", "impulsive_spender", "balanced_planner", "meticulous_tracker"}

\* Count selection and splitter (lines 316-343) on sample units of every category:
\* totals (in half units) at, just below and above the threshold and around
\* multiples of the floor
CountUnitSamples ==
    { <<"food_expense", 300>>, <<"food_expense", 299>>, <<"food_expense", 200>>,
      <<"food_expense", 800>>,
      <<"groceries_expense", 400>>, <<"groceries_expense", 399>>,
      <<"groceries_expense", 900>>, <<"groceries_expense", 2400>>,
      <<"education_expense", 800>>, <<"education_expense", 799>>,
      <<"education_expense", 2400>>, <<"education_expense", 10000>>,
      <<"subscriptions_expense", 300>>, <<"subscriptions_expense", 299>>,
      <<"subscriptions_expense", 200>>, <<"subscriptions_expense", 900>>,
      <<"fuel_expense", 200>>, <<"fuel_expense", 199>>, <<"fuel_expense", 506>>,
      <<"fuel_expense", 1>>,
      <<"transportation_expense", 200>>, <<"transportation_expense", 301>>,
      <<"utilities_expense", 300>>, <<"utilities_expense", 1200>>,
      <<"entertainment_expense", 500>>, <<"entertainment_expense", 1000>>,
      <<"shopping_expense", 400>>, <<"shopping_expense", 700>>,
      <<"healthcare_expense", 1000>>, <<"healthcare_expense", 4000>>,
      <<"personal_care_expense", 800>>, <<"personal_care_expense", 2000>>,
      <<"miscellaneous_expense", 500>>, <<"miscellaneous_expense", 1400>> }

InitCount ==
    \E u \in CountUnitSamples, arch \in ArchetypeSamples :
        /\ Entry("count", "synth", <<>>, {}, <<>>, 2024, 5, arch, u[1], PlainConfig(1, 2),
                 u[2], 0, 0)
        /\ Fresh

NextCount ==
    \/ SynthEnter
    \/ Split

SpecCount == InitCount /\ [][NextCount]_vars

\* The synthesizer alone on sample units with few transactions, one per date policy
SynthUnitSamples ==
    { <<"subscriptions_expense", 300, "">>, <<"subscriptions_expense", 500, "">>,
      <<"groceries_expense", 600, "balanced_planner">>, <<"groceries_expense", 200, "">>,
      <<"transportation_expense", 200, "impulsive_spender">>,
      <<"education_expense", 2400, "meticulous_tracker">>,
      <<"shopping_expense", 700, "">>, <<"healthcare_expense", 1000, "impulsive_spender">>,
      <<"utilities_expense", 301, "">>, <<"subscriptions_expense", 299, "">>,
      <<"fuel_expense", 1, "">>, <<"fuel_expense", 0, "">> }

InitSynth ==
    \E u \in SynthUnitSamples, ym \in {<<2024, 5>>, <<2025, 2>>} :
        /\ Entry("synth", "synth", <<>>, {}, <<>>, ym[1], ym[2], u[3], u[1],
                 PlainConfig(1, 2), u[2], 0, 0)
        /\ Fresh

NextSynth ==
    \/ SynthEnter
    \/ Split
    \/ DatesEnter
    \/ FixedSample
    \/ FixedDates
    \/ SimpleDraw
    \/ BiasedDraw
    \/ TopUp
    \/ SortDates
    \/ BuildOne
    \/ BuildReturn

SpecSynth == InitSynth /\ [][NextSynth]_vars

\* Calls of the synthesizer with any arguments: units of the table, and units
\* with a total of zero, a negative total or a category that is not in the table
CallUnitSamples ==
    { <<"subscriptions_expense", 300, "">>,
      <<"groceries_expense", 600, "balanced_planner">>,
      <<"fuel_expense", 6, "meticulous_tracker">>,
      <<"fuel_expense", 0, "">>, <<"education_expense", -10, "">>,
      <<"rent_expense", 500, "">>, <<"", 500, "impulsive_spender">> }

InitCall ==
    \E u \in CallUnitSamples :
        /\ Entry("synth", "synth", <<>>, {}, <<>>, 2024, 5, u[3], u[1],
                 PlainConfig(1, 2), u[2], 0, 0)
        /\ Fresh

\* The synthesizer called with any arguments, and called by the driver
SpecCall == (InitCall \/ Init) /\ [][Next]_vars

\* A function alone together with the whole driver
SpecSynthRun == (InitSynth \/ Init) /\ [][Next]_vars

SpecCountRun == (InitCount \/ Init) /\ [][Next]_vars

\* The step that resolves the month of a row (lines 388-406) alone, on rows with
\* every month index 0..13 and dates that parse, agreeing or not with the index,
\* or do not parse
RowDateSamples == {<<>>, <<2024, 5, 1>>, <<2025, 2, 1>>, <<2023, 12, 1>>, <<2026, 1, 1>>}

InitRow ==
    \E i \in 0..13, d \in RowDateSamples :
        /\ Entry("row", "row", <<Row("U001", i, d, "", <<>>)>>, {}, <<Header>>, 0, 0,
                 "", "", PlainConfig(1, 2), 0, 0, 0)
        /\ Fresh

NextRow == RowBegin

SpecRow == InitRow /\ [][NextRow]_vars

\* The splitter alone together with the whole driver, and the date sampler alone
\* together with the whole driver
SpecSplitRun == (InitSplit \/ Init) /\ [][Next]_vars

SpecDatesRun == (InitDates \/ Init) /\ [][Next]_vars

----------------------------------------------------------------------------
(* Properties *)

SplitReturned == scope = "split" /\ pc = "halt"

\* total_amount after int(round(.)), and the mode the splitter applies
RoundedTotal == IntRound(total_amount)
StrictMode == RoundedTotal >= cfg.allow_below_min_threshold

\* C1: whenever the splitter has returned for a total > 0, its amounts sum to
\* round(total) exactly (flexible, strict, count-reduced and remaining <= 0 branches),
\* and so do the amounts of the transactions the driver is about to emit for a unit
C1_ExactSum ==
    /\ SplitReturned /\ total_amount > 0 => SumSeq(amounts) = RoundedTotal
    /\ scope = "run" /\ pc = "emit" =>
          SumSeq([k \in 1..Len(trans_list) |-> trans_list[k].amount]) = RoundedTotal

\* C1 witness: a strict split whose count was reduced and whose remainder was
\* shared out above the floor
C1_Witness ==
    /\ SplitReturned
    /\ StrictMode
    /\ Len(amounts) >= 2
    /\ Len(amounts) < num_trans
    /\ \E i \in 1..Len(amounts) : amounts[i] > cfg.min_transaction_amount

\* C2 (as claimed): in strict mode every returned amount is >= min_amount
C2_StrictFloor ==
    SplitReturned /\ StrictMode =>
        \A i \in 1..Len(amounts) : amounts[i] >= cfg.min_transaction_amount

\* C3 (as claimed): for a total >= 1 every returned amount is a positive integer
C3_PositiveAmounts ==
    SplitReturned /\ total_amount >= 2 => \A i \in 1..Len(amounts) : amounts[i] >= 1

\* C9 (as claimed): whenever count * min_amount > total > 0 the returned list has
\* exactly max(1, floor(total / min_amount)) amounts
C9_CountReconciled ==
    SplitReturned /\ total_amount > 0
      /\ 2 * num_trans * cfg.min_transaction_amount > total_amount
    => Len(amounts) = Max(1, total_amount \div (2 * cfg.min_transaction_amount))

\* C9 (amended): in strict mode, whenever count * min_amount > round(total), the
\* returned list has exactly max(1, floor(round(total) / min_amount)) amounts
C9_StrictCountReconciled ==
    SplitReturned /\ StrictMode /\ num_trans * cfg.min_transaction_amount > RoundedTotal
    => Len(amounts) = Max(1, RoundedTotal \div cfg.min_transaction_amount)

\* C9 witness: a strict split whose requested count was infeasible and was reduced
\* to more than one amount
C9_Witness ==
    /\ SplitReturned
    /\ StrictMode
    /\ num_trans * cfg.min_transaction_amount > RoundedTotal
    /\ Len(amounts) = RoundedTotal \div cfg.min_transaction_amount
    /\ Len(amounts) >= 2
    /\ Len(amounts) < num_trans

\* The transaction rows of the output file: what follows the header
FileRows == IF fout # <<>> /\ fout[1] = Header THEN Tail(fout) ELSE <<>>

\* The transactions emitted so far, in emission order: those written to the file
\* after the header, then those of the buffer not yet written
Emitted == FileRows \o SubSeq(buffer_rows, flushed + 1, Len(buffer_rows))

RECURSIVE DigitsValue(_)
DigitsValue(d) ==
    IF d = <<>> THEN 0 ELSE 10 * DigitsValue(SubSeq(d, 1, Len(d) - 1)) + d[Len(d)]

\* The sequence number an identifier string carries
SeqNo(id) == DigitsValue(id.digits)

\* Order of two digit strings as strings
RECURSIVE LexLess(_, _)
LexLess(a, b) ==
    IF b = <<>> THEN FALSE
    ELSE IF a = <<>> THEN TRUE
    ELSE IF Head(a) # Head(b) THEN Head(a) < Head(b)
    ELSE LexLess(Tail(a), Tail(b))

\* C4: over a whole run the sequence numbers of the emitted identifiers are
\* strictly increasing in emission order (hence pairwise distinct)
C4_IdsIncreasing ==
    \A i, j \in 1..Len(Emitted) :
        i < j => SeqNo(Emitted[i].transaction_id) < SeqNo(Emitted[j].transaction_id)

\* C4 witness: a finished run of two rows that emitted at least three transactions
C4_Witness ==
    /\ scope = "run"
    /\ pc = "done"
    /\ error = "none"
    /\ stats.rows_processed = 2
    /\ Len(Emitted) >= 3

\* C5 (as claimed): every identifier is TXN- followed by exactly 8 digits, and the
\* identifier strings increase in emission order
C5_EightDigitIds ==
    /\ \A k \in 1..Len(buffer_rows) :
          /\ buffer_rows[k].transaction_id.prefix = "TXN-"
          /\ Len(buffer_rows[k].transaction_id.digits) = 8
    /\ \A i, j \in 1..Len(buffer_rows) :
          i < j => LexLess(buffer_rows[i].transaction_id.digits,
                           buffer_rows[j].transaction_id.digits)

\* C5 (amended): every identifier is TXN- followed by the decimal sequence number
\* zero-padded to at least 8 digits; up to sequence number 99999999 it has exactly
\* 8 digits and the identifier strings increase in emission order
C5_IdFormat ==
    scope = "emit" /\ pc = "halt" =>
      LET first == transaction_counter - Len(buffer_rows)
          id(k) == buffer_rows[k].transaction_id
      IN  /\ \A k \in 1..Len(buffer_rows) :
                /\ id(k).prefix = "TXN-"
                /\ \A p \in 1..Len(id(k).digits) : id(k).digits[p] \in 0..9
                /\ SeqNo(id(k)) = first + k - 1
                /\ Len(id(k).digits) >= 8
                /\ Len(id(k).digits) > 8 => id(k).digits[1] # 0
                /\ first + k - 1 <= 99999999 => Len(id(k).digits) = 8
          /\ \A i, j \in 1..Len(buffer_rows) :
                i < j /\ first + j - 1 <= 99999999
                  => LexLess(id(i).digits, id(j).digits)

\* C5 witness: the last two 8-digit identifiers have been emitted
C5_Witness ==
    /\ scope = "emit"
    /\ pc = "halt"
    /\ Len(buffer_rows) = 2
    /\ transaction_counter = 100000000

\* A produced timestamp lies in the sampled month
InMonth(dt) ==
    /\ dt.year = year
    /\ dt.month = monthnum
    /\ 1 <= dt.day
    /\ dt.day <= MonthLength(year, monthnum)

\* C7: every timestamp the date sampler produces lies in the requested year and
\* month, 1 <= day <= days in that month, for every policy; hence the timestamps of
\* the transactions of a unit lie in the month resolved for the row
C7_DatesContained ==
    /\ \A i \in 1..Len(dates) : InMonth(dates[i])
    /\ scope = "run" /\ pc \in {"build", "emit"} =>
          \A k \in 1..Len(trans_list) : InMonth(trans_list[k].date)

\* C7 witness: the sampler returned two dates of a leap February, one on the 29th
C7_Witness ==
    /\ scope = "dates"
    /\ pc = "halt"
    /\ monthnum = 2
    /\ Len(dates) = 2
    /\ dates[2].day = 29

IsSorted(s) == \A i, j \in 1..Len(s) : i < j => DateKey(s[i]) <= DateKey(s[j])

SamplerReturned == scope = "dates" /\ pc = "halt"

\* No anchor day of the fixed policy exists in the month
NoAnchorInMonth ==
    /\ cfg.date_bias = "fixed"
    /\ HasSpecificDays(cfg)
    /\ \A p \in 1..Len(cfg.specific_days) : cfg.specific_days[p] > MonthLength(year, monthnum)

\* C8 (as claimed): the sampler returns exactly count timestamps, sorted ascending,
\* for every policy and any specific_days list
C8_CountAndOrder ==
    SamplerReturned => Len(dates) = dates_n /\ IsSorted(dates)

\* C8 (amended): the sampler returns a list sorted ascending, of exactly count
\* timestamps, except under the fixed policy when no anchor day exists in the
\* month, where it returns the empty list
C8_CountAndOrderAnchored ==
    SamplerReturned =>
        /\ IsSorted(dates)
        /\ Len(dates) = IF NoAnchorInMonth THEN 0 ELSE dates_n

\* C8 witness: the fixed policy with one of two anchors missing from the month
\* returned two different timestamps
C8_Witness ==
    /\ SamplerReturned
    /\ cfg.date_bias = "fixed"
    /\ Len(available_days(cfg, year, monthnum)) = 1
    /\ Len(cfg.specific_days) = 2
    /\ Len(dates) = 2
    /\ dates_n = 2
    /\ dates[1] # dates[2]

\* The emitted identifiers are the consecutive numbers 1..N
IdsConsecutive ==
    \A k \in 1..Len(Emitted) : SeqNo(Emitted[k].transaction_id) = k

\* A unit with a total that is 0, negative or missing emits nothing, takes no
\* identifier and raises no error
SkipsNonPositive ==
    (pc = "cat" /\ CellTotal(df[idx + 1], EXPENSE_CATEGORIES[ci]) <= 0)
      => /\ buffer_rows' = buffer_rows
         /\ fout' = fout
         /\ transaction_counter' = transaction_counter
         /\ stats' = stats
         /\ error' = error
         /\ pc' \in {"cat", "endrow", "killed"}

\* C10: a unit with a total that is 0, negative or missing yields no transaction
\* and no error, and the identifiers of the run are the consecutive numbers 1..N
C10_NonPositiveTotalSkipped == []IdsConsecutive /\ [][SkipsNonPositive]_vars

\* C10 witness: a finished run whose second row has a negative and a missing
\* total between units that emitted
C10_Witness ==
    /\ scope = "run"
    /\ pc = "done"
    /\ error = "none"
    /\ Len(df) = 2
    /\ CellTotal(df[1], "subscriptions_expense") > 0
    /\ CellTotal(df[2], "education_expense") < 0
    /\ df[2].expenses["healthcare_expense"] = <<>>
    /\ CellTotal(df[2], "utilities_expense") > 0
    /\ Len(Emitted) >= 3

\* A run whose input lacks a required column: it has gone no further than the
\* column check, ends with KeyError, and has emitted nothing
AbortedOnColumns ==
    cols_missing # {} =>
        /\ cols_missing \subseteq required_cols
        /\ pc \in {"start", "done", "killed"}
        /\ pc = "done" => error = "KeyError"
        /\ fout \in {<<>>, <<Previous>>}
        /\ buffer_rows = <<>>
        /\ transaction_counter = 1
        /\ stats = NoStats

\* With a required column missing no step creates, truncates or writes the file
OutputUntouched == cols_missing # {} => fout' = fout

\* C11 (as claimed): a missing required column (user_id, month_index,
\* month_start_date or one of the 13 category columns) aborts the run before the
\* output file is touched
C11_MissingColumnFatal13 ==
    /\ AbortedOnColumns
    /\ Cardinality(CategorySet) = 13

\* C11 (amended): a missing required column (user_id, month_index, month_start_date
\* or one of the 12 category columns of TRANSACTION_MODEL) aborts the run with
\* KeyError before the output file is created, truncated or written, and no
\* transaction is emitted
C11_MissingColumnFatal ==
    /\ [](AbortedOnColumns /\ Cardinality(CategorySet) = 12
            /\ Cardinality(required_cols) = 15)
    /\ [][OutputUntouched]_vars

\* C11 witness: the run over a non-empty input without the miscellaneous_expense
\* column has aborted and the file of a previous run is still there
C11_Witness ==
    /\ scope = "run"
    /\ error = "KeyError"
    /\ pc = "done"
    /\ cols_missing = {"miscellaneous_expense"}
    /\ df # <<>>
    /\ fout = <<Previous>>

\* The month May 2024 + (i - 1) months
FallbackMonth(i) == <<2024 + ((i + 3) \div 12), ((i + 3) % 12) + 1>>

\* The row being resolved has an unparseable month_start_date
Unparseable == pc = "row" /\ ~Parses(df[idx + 1].month_start_date)

\* A row with an unparseable date and a month index in 1..12 is resolved from
\* the fallback table and the run goes on with its categories
RecoversByIndex ==
    (Unparseable /\ df[idx + 1].month_index \in 1..12 /\ pc' # "killed")
      => /\ pc' = "cat"
         /\ error' = "none"
         /\ <<year', monthnum'>> = FallbackMonth(df[idx + 1].month_index)
         /\ idx' = idx

\* C12 (as claimed): no row's date-parsing failure aborts the run
C12_ParseFailureNeverFatal == error # "ValueError"

\* C12 (amended): a row whose month_start_date cannot be parsed and whose
\* month_index is in 1..12 is resolved from the fallback table and the run goes on
\* to process every row; the run aborts with ValueError exactly on a row whose date
\* cannot be parsed and whose month_index is outside 1..12
C12_ParseFailureRecovered ==
    /\ [][RecoversByIndex]_vars
    /\ [](error = "ValueError" =>
            /\ pc = "done"
            /\ ~Parses(df[idx + 1].month_start_date)
            /\ df[idx + 1].month_index \notin 1..12)
    /\ [](scope = "run" /\ pc = "done" /\ error = "none" /\ cols_missing = {}
            => stats.rows_processed = Len(df))

\* C12 witness: a finished run of two rows, the first with an unparseable date and
\* month index 10, has written transactions dated February 2025
C12_Witness ==
    /\ scope = "run"
    /\ pc = "done"
    /\ error = "none"
    /\ Len(df) = 2
    /\ ~Parses(df[1].month_start_date)
    /\ df[1].month_index = 10
    /\ stats.rows_processed = 2
    /\ \E k \in 1..Len(FileRows) :
          /\ FileRows[k].month_index = 10
          /\ FileRows[k].date.year = 2025
          /\ FileRows[k].date.month = 2

\* The file holds a part of the batch being flushed
PartialBatchInFile == flushed > 0 /\ flushed < Len(buffer_rows)

C14_FlushComplete ==
    scope = "run" =>
        /\ Len(FileRows) + Len(buffer_rows) - flushed = stats.tx_count
        /\ \A k \in 1..Len(Emitted) : SeqNo(Emitted[k].transaction_id) = k
        /\ Len(Emitted) = stats.tx_count
        /\ pc = "row" /\ stats.rows_processed % FLUSH_BATCH_USERS = 0 => buffer_rows = <<>>
        /\ pc = "final" => buffer_rows = <<>> /\ stats.rows_processed = Len(df)
        /\ pc = "done" /\ error = "none" /\ cols_missing = {} =>
              /\ buffer_rows = <<>>
              /\ fout[1] = Header
              /\ Len(FileRows) = stats.tx_count
              /\ stats.rows_processed = Len(df)

\* C14 witness: a completed run over one row more than twice the flush threshold
C14_Witness ==
    /\ scope = "run"
    /\ pc = "done"
    /\ error = "none"
    /\ Len(df) = 2 * FLUSH_BATCH_USERS + 1
    /\ stats.rows_processed = Len(df)
    /\ Len(FileRows) = Len(df)
    /\ buffer_rows = <<>>

SynthReturned == scope = "synth" /\ pc = "halt"

\* C15 (as claimed): for a unit with a positive total the number of transactions
\* lies within the category's trans_range
C15_CountInRange ==
    SynthReturned /\ total_amount > 0 =>
        /\ Len(trans_list) >= TRANSACTION_MODEL(category).trans_range[1]
        /\ Len(trans_list) <= TRANSACTION_MODEL(category).trans_range[2]

\* C15 (amended): for a unit with a positive total the number of transactions never
\* exceeds max_n; it is at least min_n when the total is at or above the threshold
\* and floor(total / min_amount) >= min_n; at or above the threshold with a smaller
\* floor(total / min_amount) it is at most that quotient (at least 1); below the
\* threshold it is at most max(1, min_n div 2)
C15_CountBounded ==
    SynthReturned /\ total_amount > 0 =>
        LET c        == TRANSACTION_MODEL(category)
            min_n    == c.trans_range[1]
            max_n    == c.trans_range[2]
            strict   == total_amount >= 2 * c.allow_below_min_threshold
            feasible == total_amount \div (2 * c.min_transaction_amount)
        IN  /\ Len(trans_list) = Len(amounts)
            /\ Len(trans_list) <= max_n
            /\ strict /\ feasible >= min_n => Len(trans_list) >= min_n
            /\ strict /\ feasible < min_n =>
                  Len(trans_list) >= 1 /\ Len(trans_list) <= Max(1, feasible)
            /\ ~strict => Len(trans_list) <= Max(1, min_n \div 2)

\* C15 witness: a groceries unit of total 300 for a planner returned three
\* transactions, within [2, 8]
C15_Witness ==
    /\ SynthReturned
    /\ category = "groceries_expense"
    /\ total_amount = 600
    /\ Len(trans_list) = 3

\* The keys of a payment-weight mapping
PaymentKeys(weights) == {weights[i][1] : i \in 1..Len(weights)}

SeqRange(s) == {s[i] : i \in 1..Len(s)}

\* The fields of a synthesized transaction come from the configuration of the
\* category cat
FromConfig(t, cat) ==
    /\ cat \in CategorySet
    /\ t.category \o "_expense" = cat
    /\ t.merchant \in SeqRange(TRANSACTION_MODEL(cat).merchants)
    /\ t.payment_method \in PaymentKeys(TRANSACTION_MODEL(cat).payment_weights)

\* The emission of a unit appends one row per transaction of the unit, with the
\* unit's category, the row's month index and the transaction's fields
EmitsUnitRows ==
    (scope = "run" /\ pc = "emit" /\ pc' # "killed") =>
        /\ Len(buffer_rows') = Len(buffer_rows) + Len(trans_list)
        /\ \A k \in 1..Len(trans_list) :
              LET r == buffer_rows'[Len(buffer_rows) + k]
              IN  /\ r.month_index = df[idx + 1].month_index
                  /\ FromConfig(r, category)
                  /\ category = EXPENSE_CATEGORIES[ci]
                  /\ r.merchant = trans_list[k].merchant
                  /\ r.payment_method = trans_list[k].payment_method
                  /\ r.is_online = (IF trans_list[k].is_online THEN 1 ELSE 0)

\* C17: the category of every transaction is the unit's category name without
\* _expense, its merchant is in the category's merchant list, its payment method is
\* a key of the category's payment weights, its online flag is 0 or 1, and its
\* month_index is that of the source row
C17_FieldsFromConfig ==
    /\ [](scope \in {"synth", "run"} /\ pc \in {"build", "halt", "emit"} =>
            \A k \in 1..Len(trans_list) :
                /\ FromConfig(trans_list[k], category)
                /\ trans_list[k].is_online \in BOOLEAN)
    /\ [](\A k \in 1..Len(Emitted) :
            /\ \E cat \in CategorySet : FromConfig(Emitted[k], cat)
            /\ Emitted[k].is_online \in {0, 1}
            /\ \E i \in 1..Len(df) : Emitted[k].month_index = df[i].month_index)
    /\ [][EmitsUnitRows]_vars

\* C17 witness: the synthesizer returned three shopping transactions that differ in
\* merchant, payment method and online flag
C17_Witness ==
    /\ SynthReturned
    /\ category = "shopping_expense"
    /\ Len(trans_list) = 3
    /\ trans_list[1].merchant # trans_list[2].merchant
    /\ trans_list[1].payment_method # trans_list[3].payment_method
    /\ trans_list[2].is_online # trans_list[3].is_online

CountReturned == scope = "count" /\ pc = "halt"

\* The groceries unit of the scenario: total 1200, archetype balanced_planner
GroceriesScenario ==
    /\ scope = "count"
    /\ pc \in {"amounts", "halt"}
    /\ category = "groceries_expense"
    /\ total_amount = 2400
    /\ user_profile = "balanced_planner"

\* C18: groceries with total 1200, min_amount 100, threshold 200, count range
\* [2, 8] and archetype balanced_planner is in strict mode, its count is between 5
\* and 8, each amount is >= 100 and the amounts sum to 1200
C18_GroceriesScenario ==
    GroceriesScenario =>
        /\ cfg.min_transaction_amount = 100
        /\ cfg.allow_below_min_threshold = 200
        /\ cfg.trans_range = <<2, 8>>
        /\ StrictMode
        /\ num_trans >= 5
        /\ num_trans <= 8
        /\ pc = "halt" =>
              /\ Len(amounts) = num_trans
              /\ \A i \in 1..Len(amounts) : amounts[i] >= 100
              /\ SumSeq(amounts) = 1200

\* C18 witness: the scenario returned 8 amounts, not all equal
C18_Witness ==
    /\ GroceriesScenario
    /\ pc = "halt"
    /\ Len(amounts) = 8
    /\ \E i, j \in 1..8 : amounts[i] # amounts[j]

\* The count is one the strict selection can draw: within the configured range
\* clamped to [1, floor(total / min_amount)]
StrictCount ==
    LET feasible == Max(1, total_amount \div (2 * cfg.min_transaction_amount))
    IN  /\ num_trans >= Min(cfg.trans_range[1], feasible)
        /\ num_trans <= Min(cfg.trans_range[2], feasible)
        /\ num_trans >= 1

\* The count is one the flexible selection can draw
FlexibleCount ==
    /\ num_trans >= 1
    /\ num_trans <= Max(1, cfg.trans_range[1] \div 2)

\* The driver's statistics count the unit as strict iff its total is at or above
\* the threshold of its category
StatsByThreshold ==
    (scope = "run" /\ pc = "emit" /\ pc' # "killed") =>
        LET threshold == TRANSACTION_MODEL(category).allow_below_min_threshold
        IN  IF total_amount >= 2 * threshold
            THEN stats'.strict = stats.strict + 1 /\ stats'.flexible = stats.flexible
            ELSE stats'.strict = stats.strict /\ stats'.flexible = stats.flexible + 1

\* C19: a total equal to the threshold is in strict mode for the count selection
\* (count in the clamped configured range), for the splitter (every amount at or
\* above the floor) and for the driver's statistics; a total below the threshold
\* gets a flexible count and a flexible statistic
C19_ThresholdIsStrict ==
    /\ [](CountReturned /\ total_amount = 2 * cfg.allow_below_min_threshold =>
            /\ StrictCount
            /\ Len(amounts) = num_trans
            /\ \A i \in 1..Len(amounts) : amounts[i] >= cfg.min_transaction_amount
            /\ SumSeq(amounts) = cfg.allow_below_min_threshold)
    /\ [](CountReturned /\ total_amount > 0
            /\ total_amount < 2 * cfg.allow_below_min_threshold => FlexibleCount)
    /\ [][StatsByThreshold]_vars

\* C19 witness: groceries at its threshold 200 got the strict count 2 and the
\* amounts 100, 100 (the flexible count would be 1)
C19_Witness ==
    /\ CountReturned
    /\ category = "groceries_expense"
    /\ total_amount = 400
    /\ num_trans = 2
    /\ amounts = <<100, 100>>

\* C20: below the threshold the count is in [1, max(1, min_count div 2)]; at or
\* above it the count is in the configured range clamped to
\* [1, floor(total / min_amount)], so count * min_amount <= total; the count is
\* always >= 1
C20_CountSelection ==
    scope = "count" /\ pc \in {"amounts", "halt"} /\ total_amount > 0 =>
        /\ num_trans >= 1
        /\ IF total_amount < 2 * cfg.allow_below_min_threshold
           THEN FlexibleCount
           ELSE /\ StrictCount
                /\ 2 * num_trans * cfg.min_transaction_amount <= total_amount

\* C20 witness: fuel with total 253: floor(253 / 50) = 5 clamps the range [4, 10]
\* and the count drawn is 5
C20_Witness ==
    /\ CountReturned
    /\ category = "fuel_expense"
    /\ total_amount = 506
    /\ num_trans = 5
    /\ cfg.trans_range = <<4, 10>>

\* The clamped strict count range [lo, hi] of the unit and its midpoint
ClampedLo == Min(cfg.trans_range[1], Max(1, total_amount \div (2 * cfg.min_transaction_amount)))

ClampedHi == Min(cfg.trans_range[2], Max(1, total_amount \div (2 * cfg.min_transaction_amount)))

ClampedMid == ClampedLo + ((ClampedHi - ClampedLo) \div 2)

\* C21: in strict mode an impulsive_spender gets a count in [lo, mid], a
\* meticulous_tracker or balanced_planner a count in [mid, hi], any other or
\* missing archetype a count in [lo, hi], and lo <= mid <= hi
C21_ArchetypeBias ==
    (scope = "count" /\ pc \in {"amounts", "halt"}
        /\ total_amount >= 2 * cfg.allow_below_min_threshold) =>
        /\ ClampedLo <= ClampedMid
        /\ ClampedMid <= ClampedHi
        /\ ClampedLo >= 1
        /\ IF user_profile = "impulsive_spender"
           THEN num_trans >= ClampedLo /\ num_trans <= ClampedMid
           ELSE IF user_profile \in {"meticulous_tracker", "balanced_planner"}
                THEN num_trans >= ClampedMid /\ num_trans <= ClampedHi
           ELSE num_trans >= ClampedLo /\ num_trans <= ClampedHi

\* C21 witness: an impulsive spender whose strict range has lo < mid < hi got
\* the count mid
C21_Witness ==
    /\ CountReturned
    /\ total_amount >= 2 * cfg.allow_below_min_threshold
    /\ user_profile = "impulsive_spender"
    /\ ClampedLo < ClampedMid
    /\ ClampedMid < ClampedHi
    /\ num_trans = ClampedMid

\* The sampler runs the weekend or the weekday policy
BiasedPolicy == scope = "biased" /\ cfg.date_bias \in {"weekend", "weekday"}

\* C22: under the weekend and weekday policies the rejection loop makes at most
\* 5 * count attempts, the top-up loop starts only when the attempts are used
\* up and dates are missing, and the call returns, with exactly count timestamps
C22_BiasedSamplingTerminates ==
    /\ [](BiasedPolicy =>
            /\ tries <= 5 * dates_n
            /\ Len(dates) <= dates_n
            /\ (pc = "topup" => tries = 5 * dates_n /\ Len(dates) < dates_n)
            /\ (pc \in {"sort", "halt"} => Len(dates) = dates_n))
    /\ (BiasedPolicy ~> (pc = "halt" /\ Len(dates) = dates_n))

\* C22 witness: the weekend policy returned two timestamps, both on weekdays,
\* after all 10 attempts of the rejection loop
C22_Witness ==
    /\ BiasedPolicy
    /\ pc = "halt"
    /\ cfg.date_bias = "weekend"
    /\ dates_n = 2
    /\ tries = 10
    /\ Len(dates) = 2
    /\ \A i \in 1..2 : Weekday(dates[i]) < 5

\* The fixed policy with a specific_days list
FixedPolicy == scope = "dates" /\ cfg.date_bias = "fixed" /\ HasSpecificDays(cfg)

\* The anchor days of the list that exist in the month
AnchorSet ==
    { cfg.specific_days[p] : p \in { q \in 1..Len(cfg.specific_days) :
                                       cfg.specific_days[q] <= MonthLength(year, monthnum) } }

\* How many of the first k chosen days are the anchor day d
UsedAmong(k, d) == Cardinality({ i \in 1..k : chosen[i] = d })

\* C23: under the fixed policy every produced day is an anchor day that exists
\* in the month, the timestamps are those of the chosen days, and after any
\* number of choices the usage counts of two available anchors differ by at
\* most 1
C23_FixedCyclesAnchors ==
    FixedPolicy =>
        /\ \A i \in 1..Len(chosen) : chosen[i] \in AnchorSet
        /\ \A i \in 1..Len(dates) :
             /\ dates[i].day \in AnchorSet
             /\ dates[i].year = year
             /\ dates[i].month = monthnum
        /\ \A k \in 0..Len(chosen) : \A a, b \in AnchorSet :
             UsedAmong(k, a) <= UsedAmong(k, b) + 1
        /\ (pc \in {"sort", "halt"} =>
              \A d \in AnchorSet :
                 Cardinality({ i \in 1..Len(dates) : dates[i].day = d })
                    = UsedAmong(Len(chosen), d))

\* C23 witness: two anchors exist in the month and three timestamps were
\* returned, one anchor used twice and the other once
C23_Witness ==
    /\ FixedPolicy
    /\ pc = "halt"
    /\ Cardinality(AnchorSet) = 2
    /\ Len(dates) = 3
    /\ \E a, b \in AnchorSet : UsedAmong(3, a) = 2 /\ UsedAmong(3, b) = 1

\* The hours of the night, which no policy other than the fixed one can draw
NightHours == 0..5

\* Every timestamp drawn so far has its hour in lo..hi and a minute of the hour
HoursWithin(lo, hi) ==
    \A i \in 1..Len(dates) :
        /\ dates[i].hour >= lo
        /\ dates[i].hour <= hi
        /\ dates[i].minute \in 0..59

\* C24 (as claimed): under the fixed policy every timestamp has a daytime hour
C24_FixedBusinessHours ==
    FixedPolicy => \A i \in 1..Len(dates) : dates[i].hour \notin NightHours

\* C24 (amended): the fixed policy draws the hour from the whole day, 0..23,
\* night hours included; the other policies draw it from their own daytime
\* range: early_month 8..20, weekend 10..21, weekday 7..20,
\* mid_to_late_month 11..21, any other policy 6..23
C24_HourRanges ==
    scope = "dates" =>
        IF FixedPolicy THEN HoursWithin(0, 23)
        ELSE IF cfg.date_bias = "early_month" THEN HoursWithin(8, 20)
        ELSE IF cfg.date_bias = "weekend" THEN HoursWithin(10, 21)
        ELSE IF cfg.date_bias = "weekday" THEN HoursWithin(7, 20)
        ELSE IF cfg.date_bias = "mid_to_late_month" THEN HoursWithin(11, 21)
        ELSE HoursWithin(6, 23)

\* C24 witness: the fixed policy returned a timestamp at 00:00
C24_Witness ==
    /\ FixedPolicy
    /\ pc = "halt"
    /\ \E i \in 1..Len(dates) : dates[i].hour = 0 /\ dates[i].minute = 0

\* The month resolved for the row is the parsed one when the date parses, and
\* otherwise, for a month index in 1..12, the one at that position of the window
\* May 2024 .. April 2025
ResolvesMonth ==
    pc = "row" /\ pc' # "killed" =>
        LET row == df[idx + 1]
            i   == row.month_index
        IN  IF row.month_start_date # <<>>
            THEN /\ <<year', monthnum'>> = <<row.month_start_date[1], row.month_start_date[2]>>
                 /\ error' = "none"
                 /\ pc' # "done"
            ELSE IF i \in 1..12
            THEN /\ <<year', monthnum'>> = FallbackMonth(i)
                 /\ (i = 1 => <<year', monthnum'>> = <<2024, 5>>)
                 /\ (i = 8 => <<year', monthnum'>> = <<2024, 12>>)
                 /\ (i = 9 => <<year', monthnum'>> = <<2025, 1>>)
                 /\ (i = 12 => <<year', monthnum'>> = <<2025, 4>>)
                 /\ error' = "none"
                 /\ pc' # "done"
            ELSE error' = "ValueError"

\* C25: an unparseable month_start_date with month_index i in 1..12 resolves to
\* position i of the window May 2024 .. April 2025; a date that parses resolves
\* to its own year and month whatever the month index
C25_FallbackTable == [][ResolvesMonth]_vars

\* C25 witness: an unparseable date with month index 9 resolved to January 2025
C25_Witness ==
    /\ scope = "row"
    /\ pc = "halt"
    /\ df[1].month_start_date = <<>>
    /\ df[1].month_index = 9
    /\ <<year, monthnum>> = <<2025, 1>>

\* C25 second case, a reachable state: the date 2023-12-01 with month index 1
\* resolved to December 2023, not to the table's May 2024
C25_ParsedWins ==
    /\ scope = "row"
    /\ pc = "halt"
    /\ df[1].month_start_date = <<2023, 12, 1>>
    /\ df[1].month_index = 1
    /\ <<year, monthnum>> = <<2023, 12>>

\* The driver is inside the iteration of row idx + 1
InsideRow ==
    pc \in {"cat", "synth", "amounts", "dates", "fixed_sample", "fixed_dates",
            "simple_loop", "biased_loop", "topup", "sort", "build", "emit", "endrow"}

\* The units with a positive total among the first k categories of input row i
PositiveUnits(i, k) ==
    Cardinality({ c \in 1..k : CellTotal(df[i], EXPENSE_CATEGORIES[c]) > 0 })

RECURSIVE PositiveUnitsOfRows(_)
PositiveUnitsOfRows(n) ==
    IF n = 0 THEN 0
    ELSE PositiveUnitsOfRows(n - 1) + PositiveUnits(n, Len(EXPENSE_CATEGORIES))

\* C26: rows_processed is the number of rows processed so far, tx_count the
\* number of transactions emitted so far (the counter minus 1), flexible + strict
\* the number of units with a positive total processed so far; a run that ends
\* without error has rows_processed equal to the number of input rows
C26_StatsConsistent ==
    scope = "run" =>
        /\ stats.tx_count = transaction_counter - 1
        /\ stats.tx_count = Len(Emitted)
        /\ stats.rows_processed = idx
        /\ stats.rows_processed <= Len(df)
        /\ (pc # "killed" =>
              stats.flexible + stats.strict =
                 PositiveUnitsOfRows(idx)
                   + (IF InsideRow THEN PositiveUnits(idx + 1, ci - 1) ELSE 0))
        /\ (pc = "done" /\ error = "none" => stats.rows_processed = Len(df))

\* C26 witness: a finished run of two rows with three units of a positive total,
\* one of them a unit of two transactions
C26_Witness ==
    /\ scope = "run"
    /\ pc = "done"
    /\ error = "none"
    /\ stats.rows_processed = 2
    /\ stats.flexible + stats.strict = 3
    /\ stats.flexible >= 1
    /\ stats.strict >= 1
    /\ stats.tx_count = 4

\* A call of generate_transactions_for_category is being executed
InsideSynth ==
    pc \in {"synth", "amounts", "dates", "fixed_sample", "fixed_dates",
            "simple_loop", "biased_loop", "topup", "sort", "build"}

\* A step of the synthesizer leaves the driver's counter, statistics, buffer,
\* file and input as they are, and the configuration it read is the table's
SynthStepPure ==
    InsideSynth =>
        /\ transaction_counter' = transaction_counter
        /\ stats' = stats
        /\ buffer_rows' = buffer_rows
        /\ flushed' = flushed
        /\ fout' = fout
        /\ df' = df
        /\ idx' = idx
        /\ ci' = ci
        /\ error' = error
        /\ (pc # "synth" /\ pc' # "killed" => cfg' = cfg /\ cfg = TRANSACTION_MODEL(category))

\* C27: a call of the synthesizer, whatever its arguments and result, leaves the
\* configuration table, the transaction counter, the statistics and the output
\* buffer unchanged; a non-positive total or an unrecognized category returns
\* the empty list without error
C27_SynthesizerPure ==
    /\ [][SynthStepPure]_vars
    /\ [](SynthReturned =>
            /\ transaction_counter = 1
            /\ stats = NoStats
            /\ buffer_rows = <<>>
            /\ fout = <<>>
            /\ error = "none"
            /\ (total_amount <= 0 \/ category \notin CategorySet => trans_list = <<>>))

\* C27 witness: a call for a category that is not in the table returned the
\* empty list with the counter, statistics and buffer as before the call
C27_Witness ==
    /\ SynthReturned
    /\ category = "rent_expense"
    /\ total_amount = 500
    /\ trans_list = <<>>
    /\ transaction_counter = 1
    /\ stats = NoStats
    /\ buffer_rows = <<>>

\* C27 second case, a reachable state: a call that returned two transactions
\* left the counter, statistics and buffer as before the call
C27_NonEmptyResult ==
    /\ SynthReturned
    /\ Len(trans_list) = 2
    /\ transaction_counter = 1
    /\ stats = NoStats
    /\ buffer_rows = <<>>

\* C28: for every unit with a positive total, the mode of the count selection
\* and of the driver's statistics (raw total below the threshold: flexible) is
\* the mode of the splitter (rounded total below the threshold: flexible)
C28_ModeAgreement ==
    CountReturned /\ total_amount > 0 =>
        (total_amount < 2 * cfg.allow_below_min_threshold
            <=> RoundedTotal < cfg.allow_below_min_threshold)

\* s is an initial part of t
IsPrefix(s, t) == Len(s) <= Len(t) /\ SubSeq(t, 1, Len(s)) = s

\* The unit's transactions are emitted after everything emitted before, in the
\* order of the synthesizer's list, which is in non-decreasing timestamp order,
\* for the row and the category the driver is at, and the driver moves on to the
\* next category
EmitsInOrder ==
    (scope = "run" /\ pc = "emit" /\ pc' # "killed") =>
        /\ Len(Emitted') = Len(Emitted) + Len(trans_list)
        /\ \A k \in 1..Len(trans_list) :
              LET r == Emitted'[Len(Emitted) + k]
              IN  /\ r.date = trans_list[k].date
                  /\ r.amount = trans_list[k].amount
                  /\ r.user_id = df[idx + 1].user_id
                  /\ r.category \o "_expense" = EXPENSE_CATEGORIES[ci]
                  /\ SeqNo(r.transaction_id) = transaction_counter + k - 1
        /\ \A j, k \in 1..Len(trans_list) :
              j < k => DateKey(trans_list[j].date) <= DateKey(trans_list[k].date)
        /\ ci' = ci + 1
        /\ idx' = idx

\* The driver visits the rows in input order and, within a row, the categories
\* in the order of the configuration table
VisitsInOrder ==
    scope = "run" =>
        /\ idx' >= idx
        /\ idx' <= idx + 1
        /\ (idx' = idx + 1 => pc = "endrow" /\ ci = Len(EXPENSE_CATEGORIES) + 1)
        /\ (pc = "row" /\ pc' = "cat" => ci' = 1)
        /\ (pc # "row" => ci' >= ci /\ ci' <= ci + 1)

\* C29: transactions are emitted, and take their identifiers, in the order of
\* (input row, category of the table, timestamp), and what has been emitted is
\* never reordered: every step, a flush included, only appends to it
C29_EmissionOrder ==
    /\ [][EmitsInOrder]_vars
    /\ [][VisitsInOrder]_vars
    /\ [][scope = "run" => IsPrefix(Emitted, Emitted') /\ IsPrefix(FileRows, FileRows')]_vars

\* C29 witness: a finished run of two rows whose file ends with two fuel
\* transactions of the second row in increasing timestamp order, after the
\* transactions of the first row
C29_Witness ==
    /\ scope = "run"
    /\ pc = "done"
    /\ error = "none"
    /\ Len(df) = 2
    /\ df[1].user_id # df[2].user_id
    /\ Len(FileRows) >= 3
    /\ LET n == Len(FileRows)
       IN  /\ FileRows[n].category = "fuel"
           /\ FileRows[n - 1].category = "fuel"
           /\ FileRows[n].user_id = df[2].user_id
           /\ FileRows[n - 1].user_id = df[2].user_id
           /\ FileRows[n - 2].user_id = df[1].user_id
           /\ DateKey(FileRows[n - 1].date) < DateKey(FileRows[n].date)

\* s holds the transactions numbered 1 .. tx_count, each once and in order
AllEmittedOnce(s) ==
    /\ Len(s) = stats.tx_count
    /\ \A k \in 1..Len(s) : SeqNo(s[k].transaction_id) = k

\* A flush is writing the buffer to the file
Flushing == pc \in {"flush", "final_flush"}

\* The number of rows processed since the last flush at a multiple of the threshold
RowsSinceFlush == stats.rows_processed % FLUSH_BATCH_USERS

\* C30 (as claimed): at every point of a run the file's transactions followed by
\* the buffer are exactly the transactions emitted so far
C30_FileThenBuffer ==
    scope = "run" /\ pc # "killed" => AllEmittedOnce(FileRows \o buffer_rows)

\* C30 (amended): outside a flush the file's transactions followed by the buffer
\* are exactly the transactions emitted so far; during a flush the rows of the
\* buffer already written are both at the end of the file and in the buffer, and
\* the file followed by the rows not yet written is the emitted sequence; at the
\* end of a row iteration the buffer holds only transactions of the rows
\* processed since the last flush, fewer than FLUSH_BATCH_USERS rows; the buffer
\* is empty when a flush ends
C30_BufferAccounting ==
    /\ [](scope = "run" /\ pc # "killed" =>
            /\ ~Flushing => flushed = 0 /\ AllEmittedOnce(FileRows \o buffer_rows)
            /\ Flushing =>
                 /\ flushed <= Len(buffer_rows)
                 /\ flushed <= Len(FileRows)
                 /\ SubSeq(FileRows, Len(FileRows) - flushed + 1, Len(FileRows))
                       = SubSeq(buffer_rows, 1, flushed)
                 /\ AllEmittedOnce(FileRows \o SubSeq(buffer_rows, flushed + 1,
                                                      Len(buffer_rows)))
            /\ pc \in {"row", "final"} =>
                 /\ RowsSinceFlush < FLUSH_BATCH_USERS
                 /\ RowsSinceFlush <= idx
                 /\ \A k \in 1..Len(buffer_rows) :
                       \E i \in (idx - RowsSinceFlush + 1)..idx :
                          /\ buffer_rows[k].user_id = df[i].user_id
                          /\ buffer_rows[k].month_index = df[i].month_index)
    /\ [][scope = "run" /\ Flushing /\ pc' \notin {"flush", "final_flush", "killed"} =>
            buffer_rows' = <<>> /\ flushed' = 0 /\ fout' = fout]_vars

\* C30 witness: after one row more than a whole batch, the batch is in the file
\* and the buffer holds the one transaction of the row processed since
C30_Witness ==
    /\ scope = "run"
    /\ pc = "row"
    /\ stats.rows_processed = FLUSH_BATCH_USERS + 1
    /\ Len(FileRows) = FLUSH_BATCH_USERS
    /\ Len(buffer_rows) = 1
    /\ SeqNo(buffer_rows[1].transaction_id) = FLUSH_BATCH_USERS + 1

====
